---------------------------- MODULE Spec2Model ----------------------------
(***************************************************************************)
(* A model of the mutation-testing engine: the mutant cache (Line and      *)
(* Mutant rows, status lookup, line renumbering), the test cycle of one    *)
(* mutant (run_mutation), the producer / worker / coordinator pipeline     *)
(* and the syntax-tree traversal that enumerates and applies mutations.    *)
(*                                                                         *)
(* Each subsystem has its own specification (SpecCache, SpecRun, ...)      *)
(* over the shared variables; a specification leaves the variables of the  *)
(* other subsystems unchanged.                                             *)
(***************************************************************************)
EXTENDS Integers, Sequences, FiniteSets, TLC

VARIABLES
    \* ---- the mutant cache (src/cache) ----
    file,        \* current content of the source file: a sequence of line texts
    dbLines,     \* Line rows: pk -> [line, line_number]
    dbMutants,   \* Mutant rows: pk -> [line (pk of the Line), index, status, tested_against_hash]
    testsHash,   \* config.hash_of_tests of the current run
    lookup,      \* what the last cache operation returned
    updates,     \* status updates made so far (bounds the model)
    \* ---- the test cycle of one mutant (run_mutation) ----
    disk,        \* the bytes of the source file and of its .bak backup
    config,      \* the Config of the run
    run,         \* the run_mutation call in progress: position, locals, effects
    proc,        \* the test subprocess and the Timer thread that kills it
    worker,      \* the worker process: the mutants left on its queue, what it reported
    \* ---- the pipeline of run_mutation_tests ----
    mutants_queue,   \* the dispatch queue: ("mutant", context) and ("end", None) items
    results_queue,   \* the results queue: status, progress, cycle and end items
    producer,        \* the queue_mutants thread
    workers,         \* the check_mutants processes created so far, in order
    coordinator,     \* the loop of run_mutation_tests
    tally,           \* per mutant: what was registered, dispatched, tested, stored
    \* ---- the re-sync of the line numbers ----
    sourcefile,      \* the SourceFile row: the hash of the content it was synced with
    edit,            \* the edit of the file: where, and the cache before it
    \* ---- the mutation engine ----
    mutation,        \* the source, the ids listed for it, the id applied and the result
    \* ---- the end of the run ----
    progress,        \* the Progress of the run: the mutants registered by status
    exit,            \* the call of compute_exit_code and the code it returned
    \* ---- a second run over the same file ----
    rerun,           \* the step of the run, and the listing and the cache of the run before
    \* ---- the first cache access of a process ----
    schema,          \* the binding of the database, the MiscData rows and the last call
    \* ---- two enumerations of one source ----
    listing,         \* the source, the initial index and the ids of each enumeration
    \* ---- the contexts the producer builds and the edits the worker writes ----
    dispatch         \* the listed ids, the queue of contexts, what mutate_file wrote

cacheVars == <<file, dbLines, dbMutants, testsHash, lookup, updates>>

runVars == <<disk, config, run, proc, worker>>

orchVars == <<mutants_queue, results_queue, producer, workers, coordinator, tally>>

lineVars == <<sourcefile, edit>>

\* the variables a cache action, a run action, a pipeline action leaves alone
exitVars == <<progress, exit, rerun>>

\* the variables of the specifications of the first cache access and after
laterVars == <<schema, listing, dispatch>>

notCacheVars == <<runVars, orchVars, lineVars, mutation, exitVars, laterVars>>
notRunVars == <<orchVars, lineVars, mutation, exitVars, laterVars>>
notOrchVars == <<runVars, lineVars, mutation, exitVars, laterVars>>
notLineVars == <<runVars, orchVars, mutation, exitVars, laterVars>>
notMutateVars == <<cacheVars, runVars, orchVars, lineVars, exitVars, laterVars>>
notExitVars == <<cacheVars, runVars, orchVars, lineVars, mutation, rerun, laterVars>>

vars == <<file, dbLines, dbMutants, testsHash, lookup, updates,
          disk, config, run, proc, worker,
          mutants_queue, results_queue, producer, workers, coordinator, tally,
          sourcefile, edit, mutation, progress, exit, rerun, schema, listing,
          dispatch>>

(***************************************************************************)
(* Bounds of the model.                                                    *)
(***************************************************************************)
MaxFileLines == 2      \* lines of the source file in the cache specification
MaxUpdates == 1        \* status updates in the cache specification

(***************************************************************************)
(* status.py                                                               *)
(***************************************************************************)
UNTESTED == "untested"
OK_KILLED == "ok_killed"
OK_SUSPICIOUS == "ok_suspicious"
BAD_TIMEOUT == "bad_timeout"
BAD_SURVIVED == "bad_survived"
SKIPPED == "skipped"

\* what run_mutation can return and the coordinator can store
ResultStatuses == {OK_KILLED, OK_SUSPICIOUS, BAD_TIMEOUT, BAD_SURVIVED, SKIPPED}

(***************************************************************************)
(* cache/model.py                                                          *)
(***************************************************************************)
NO_TESTS_FOUND == "NO TESTS FOUND"

\* the value of an Optional(str) column that was never set
NoHash == ""

\* the hashes a test suite can have in the model
TestHashes == {"h1", "h2"}

HashResults == TestHashes \cup {NO_TESTS_FOUND}

\* the texts a line of the source file can have
LineTexts == {"A", "B"}

RelativeMutationID(line, index, line_number) ==
    [line |-> line, index |-> index, line_number |-> line_number]

\* the mutation sites of a line of the file: one on a line "A", two on a
\* line "B"
SitesOnLine(line) == IF line = "A" THEN 1 ELSE 2

\* the ids list_mutations yields for a file, in traversal order: by line,
\* then by per-line index
RECURSIVE IdsFrom(_, _, _)
IdsFrom(f, n, i) ==
    IF n >= Len(f) THEN <<>>
    ELSE IF i >= SitesOnLine(f[n + 1]) THEN IdsFrom(f, n + 1, 0)
    ELSE <<RelativeMutationID(f[n + 1], i, n)>> \o IdsFrom(f, n, i + 1)

MutationIdsOf(f) == IdsFrom(f, 0, 0)

Range(seq) == {seq[i] : i \in DOMAIN seq}

FreshPk(rows) == IF DOMAIN rows = {} THEN 1
                 ELSE 1 + CHOOSE p \in DOMAIN rows : \A q \in DOMAIN rows : q <= p

\* Line.get(sourcefile=, line=, line_number=): the pks of the matching rows
LineGet(lines, line, line_number) ==
    {p \in DOMAIN lines : lines[p].line = line /\ lines[p].line_number = line_number}

\* get_mutant(line=, index=)
get_mutant(mutants, linePk, index) ==
    {p \in DOMAIN mutants : mutants[p].line = linePk /\ mutants[p].index = index}

\* get_or_create(Mutant, line=, index=, defaults=dict(status=UNTESTED)):
\* the table afterwards
get_or_create_Mutant(mutants, linePk, index) ==
    IF get_mutant(mutants, linePk, index) # {} THEN mutants
    ELSE mutants @@ (FreshPk(mutants) :>
            [line |-> linePk, index |-> index, status |-> UNTESTED,
             tested_against_hash |-> NoHash])

TheMutant(mutants, linePk, index) ==
    mutants[CHOOSE p \in get_mutant(mutants, linePk, index) : TRUE]

(***************************************************************************)
(* cache/cache.py: the status lookups and the status update                *)
(***************************************************************************)
\* a lookup that compares the hashes and forgets the sentinel
StatusOfMutantNoSentinel(mutant, hash_of_tests) ==
    IF mutant.status = OK_KILLED THEN OK_KILLED
    ELSE IF mutant.tested_against_hash # hash_of_tests THEN UNTESTED
         ELSE mutant.status

\* the tail of both lookups: killed is sticky, a stale or sentinel hash
\* reads as untested, otherwise the stored status
StatusOfMutant(mutant, hash_of_tests) ==
    IF mutant.status = OK_KILLED THEN OK_KILLED
    ELSE IF \/ mutant.tested_against_hash # hash_of_tests
            \/ mutant.tested_against_hash = NO_TESTS_FOUND
            \/ hash_of_tests = NO_TESTS_FOUND
         THEN UNTESTED
         ELSE mutant.status

\* cached_mutation_status(filename, mutation_id, hash_of_tests):
\* [mutants |-> the Mutant table afterwards, raised, status]
cached_mutation_status(lines, mutants, mutation_id, hash_of_tests) ==
    LET found == LineGet(lines, mutation_id.line, mutation_id.line_number)
    IN  IF Cardinality(found) # 1
        THEN [mutants |-> mutants, raised |-> TRUE, status |-> UNTESTED]
        ELSE LET linePk == CHOOSE p \in found : TRUE
                 after == get_or_create_Mutant(mutants, linePk, mutation_id.index)
             IN  [mutants |-> after, raised |-> FALSE,
                  status |-> StatusOfMutant(TheMutant(after, linePk, mutation_id.index),
                                            hash_of_tests)]

\* the key under which get_cached_mutation_statuses remembers a Line object
LineCacheKey(mutation_id) == mutation_id.line

\* get_cached_mutation_statuses(filename, mutations, hash_of_tests): the loop
\* from position k on, with the Mutant table, the line_obj_by_line dict and
\* the result dict so far
RECURSIVE StatusesLoop(_, _, _, _, _, _, _)
StatusesLoop(lines, mutants, mutations, hash_of_tests, k, line_obj_by_line, result) ==
    IF k > Len(mutations)
    THEN [mutants |-> mutants, raised |-> FALSE, result |-> result]
    ELSE
      LET mutation_id == mutations[k]
          key == LineCacheKey(mutation_id)
          known == key \in DOMAIN line_obj_by_line
          found == LineGet(lines, mutation_id.line, mutation_id.line_number)
      IN  IF ~known /\ Cardinality(found) # 1
          THEN [mutants |-> mutants, raised |-> TRUE, result |-> result]
          ELSE
            LET objs == IF known THEN line_obj_by_line
                        ELSE line_obj_by_line @@ (key :> CHOOSE p \in found : TRUE)
                linePk == objs[key]
                after == get_or_create_Mutant(mutants, linePk, mutation_id.index)
                status == StatusOfMutant(TheMutant(after, linePk, mutation_id.index),
                                         hash_of_tests)
            IN  StatusesLoop(lines, after, mutations, hash_of_tests, k + 1, objs,
                             (mutation_id :> status) @@ result)

get_cached_mutation_statuses(lines, mutants, mutations, hash_of_tests) ==
    StatusesLoop(lines, mutants, mutations, hash_of_tests, 1, <<>>, <<>>)

\* update_mutant_status(file_to_mutate, mutation_id, status, tests_hash):
\* the Mutant table afterwards; the asserts need the Line and the Mutant
CanUpdateMutantStatus(lines, mutants, mutation_id) ==
    LET found == LineGet(lines, mutation_id.line, mutation_id.line_number)
    IN  /\ Cardinality(found) = 1
        /\ get_mutant(mutants, CHOOSE p \in found : TRUE, mutation_id.index) # {}

update_mutant_status(lines, mutants, mutation_id, status, tests_hash) ==
    LET linePk == CHOOSE p \in LineGet(lines, mutation_id.line, mutation_id.line_number) : TRUE
        pk == CHOOSE p \in get_mutant(mutants, linePk, mutation_id.index) : TRUE
    IN  [mutants EXCEPT ![pk].status = status, ![pk].tested_against_hash = tests_hash]

\* the stored row of a mutation id (the row cached_mutation_status reads)
StoredMutant(lines, mutants, mutation_id) ==
    LET found == LineGet(lines, mutation_id.line, mutation_id.line_number)
    IN  IF Cardinality(found) # 1 THEN {}
        ELSE {mutants[p] : p \in get_mutant(mutants, CHOOSE p \in found : TRUE,
                                            mutation_id.index)}

\* register_mutants(mutations_by_file) for a file whose hash changed: a Mutant
\* row, untested, for every id that has none
RECURSIVE register_mutants(_, _, _)
register_mutants(lines, mutants, mutation_ids) ==
    IF mutation_ids = <<>> THEN mutants
    ELSE LET mutation_id == Head(mutation_ids)
             found == LineGet(lines, mutation_id.line, mutation_id.line_number)
         IN  register_mutants(lines,
                 get_or_create_Mutant(mutants, CHOOSE p \in found : TRUE, mutation_id.index),
                 Tail(mutation_ids))

\* the lists of ids a run asks about: every id of the file, or a single one
\* (a run of one mutant)
MutationLists(f) == {MutationIdsOf(f)} \cup {<<m>> : m \in Range(MutationIdsOf(f))}

NoLookup == [op |-> "none", hash |-> NoHash, raised |-> FALSE, result |-> <<>>]

(***************************************************************************)
(* cache/update_line_numbers.py: difflib's SequenceMatcher over the cached *)
(* and the existing lines (no junk: the files are short), the per-line     *)
(* operations and the re-sync of the Line rows. Positions are 0-based as   *)
(* in the source; a[i] of the source is a[i + 1] here.                     *)
(***************************************************************************)
Max(S) == CHOOSE x \in S : \A y \in S : y <= x
Min(S) == CHOOSE x \in S : \A y \in S : x <= y

\* the length of the longest common run of a from i and b from j, inside
\* a[..ahi] and b[..bhi]
RECURSIVE MatchLength(_, _, _, _, _, _)
MatchLength(a, b, i, j, ahi, bhi) ==
    IF i < ahi /\ j < bhi /\ a[i + 1] = b[j + 1]
    THEN 1 + MatchLength(a, b, i + 1, j + 1, ahi, bhi)
    ELSE 0

\* SequenceMatcher.find_longest_match(alo, ahi, blo, bhi): <<i, j, k>>, the
\* longest matching block; of those the one that starts earliest in a, and of
\* those the one that starts earliest in b
find_longest_match(a, b, alo, ahi, blo, bhi) ==
    LET starts == {c \in (alo..(ahi - 1)) \X (blo..(bhi - 1)) : a[c[1] + 1] = b[c[2] + 1]}
        len(c) == MatchLength(a, b, c[1], c[2], ahi, bhi)
    IN  IF starts = {} THEN <<alo, blo, 0>>
        ELSE LET bestsize == Max({len(c) : c \in starts})
                 besti == Min({c[1] : c \in {d \in starts : len(d) = bestsize}})
                 bestj == Min({c[2] : c \in {d \in starts : len(d) = bestsize /\ d[1] = besti}})
             IN  <<besti, bestj, bestsize>>

\* the matching blocks of a[alo..ahi] and b[blo..bhi], in increasing order:
\* the longest block, and the blocks to its left and to its right
RECURSIVE MatchingBlocks(_, _, _, _, _, _)
MatchingBlocks(a, b, alo, ahi, blo, bhi) ==
    LET x == find_longest_match(a, b, alo, ahi, blo, bhi)
        i == x[1]
        j == x[2]
        k == x[3]
    IN  IF k = 0 THEN <<>>
        ELSE (IF alo < i /\ blo < j THEN MatchingBlocks(a, b, alo, i, blo, j) ELSE <<>>)
             \o <<x>>
             \o (IF i + k < ahi /\ j + k < bhi
                 THEN MatchingBlocks(a, b, i + k, ahi, j + k, bhi) ELSE <<>>)

\* adjacent blocks are merged into one
RECURSIVE CollapseBlocks(_)
CollapseBlocks(blocks) ==
    IF Len(blocks) < 2 THEN blocks
    ELSE LET x == blocks[1]
             y == blocks[2]
         IN  IF x[1] + x[3] = y[1] /\ x[2] + x[3] = y[2]
             THEN CollapseBlocks(<<(<<x[1], x[2], x[3] + y[3]>>)>> \o Tail(Tail(blocks)))
             ELSE <<x>> \o CollapseBlocks(Tail(blocks))

\* SequenceMatcher.get_matching_blocks(): with the sentinel (len(a), len(b), 0)
get_matching_blocks(a, b) ==
    CollapseBlocks(MatchingBlocks(a, b, 0, Len(a), 0, Len(b))) \o <<(<<Len(a), Len(b), 0>>)>>

\* SequenceMatcher.get_opcodes(): from position (i, j) on, over the blocks
\* left
RECURSIVE OpcodesFrom(_, _, _)
OpcodesFrom(blocks, i, j) ==
    IF blocks = <<>> THEN <<>>
    ELSE LET ai == Head(blocks)[1]
             bj == Head(blocks)[2]
             size == Head(blocks)[3]
             tag == IF i < ai /\ j < bj THEN "replace"
                    ELSE IF i < ai THEN "delete"
                    ELSE IF j < bj THEN "insert"
                    ELSE ""
         IN  (IF tag # "" THEN <<[tag |-> tag, i1 |-> i, i2 |-> ai, j1 |-> j, j2 |-> bj]>>
              ELSE <<>>)
             \o (IF size > 0
                 THEN <<[tag |-> "equal", i1 |-> ai, i2 |-> ai + size,
                         j1 |-> bj, j2 |-> bj + size]>>
                 ELSE <<>>)
             \o OpcodesFrom(Tail(blocks), ai + size, bj + size)

get_opcodes(a, b) == OpcodesFrom(get_matching_blocks(a, b), 0, 0)

\* the None that zip_longest fills in for a position
NoIndex == 0 - 1

\* the tuples zip_longest gives for one opcode, from offset n on
RECURSIVE ZipLongest(_, _)
ZipLongest(op, n) ==
    IF op.i1 + n >= op.i2 /\ op.j1 + n >= op.j2 THEN <<>>
    ELSE <<[command |-> op.tag,
            a_index |-> IF op.i1 + n < op.i2 THEN op.i1 + n ELSE NoIndex,
            b_index |-> IF op.j1 + n < op.j2 THEN op.j1 + n ELSE NoIndex]>>
         \o ZipLongest(op, n + 1)

\* sequence_ops(a, b): the per-line operations, opcode after opcode
RECURSIVE FlattenOpcodes(_)
FlattenOpcodes(opcodes) ==
    IF opcodes = <<>> THEN <<>>
    ELSE ZipLongest(Head(opcodes), 0) \o FlattenOpcodes(Tail(opcodes))

sequence_ops(a, b) == FlattenOpcodes(get_opcodes(a, b))

\* the sha256 digest of the content of a file: one digest per content
hash_of(f) == <<"sha256">> \o f

\* a row that was deleted: its primary key is not given out again
\* (AUTOINCREMENT), and no query finds it
DeletedLine == [line |-> "<deleted>", line_number |-> NoIndex]
DeletedMutant == [line |-> 0, index |-> NoIndex, status |-> "<deleted>",
                  tested_against_hash |-> NoHash]

LivePks(lines) == {p \in DOMAIN lines : lines[p] # DeletedLine}

\* list(sourcefile.lines.order_by(Line.line_number)): the primary keys of the
\* Line rows, by line number
RECURSIVE OrderByLineNumber(_, _)
OrderByLineNumber(lines, pks) ==
    IF pks = {} THEN <<>>
    ELSE LET first == CHOOSE p \in pks :
                         \A q \in pks : \/ lines[p].line_number < lines[q].line_number
                                        \/ /\ lines[p].line_number = lines[q].line_number
                                           /\ p <= q
         IN  <<first>> \o OrderByLineNumber(lines, pks \ {first})

\* Line(sourcefile=sourcefile, line=line, line_number=line_number)
CreateLine(db, line, line_number) ==
    [db EXCEPT !.lines = @ @@ (FreshPk(@) :> [line |-> line, line_number |-> line_number])]

\* cached_line_objects[a_index].delete(): the Line goes, and its Mutants with
\* it
DeleteLine(db, pk) ==
    [lines |-> [db.lines EXCEPT ![pk] = DeletedLine],
     mutants |-> [p \in DOMAIN db.mutants |->
                     IF db.mutants[p].line = pk THEN DeletedMutant ELSE db.mutants[p]]]

\* lines 69-75: an "equal" line whose position changed is renumbered
Renumber(db, pk, a_index, b_index) ==
    IF a_index # b_index THEN [db EXCEPT !.lines[pk].line_number = b_index] ELSE db

\* the body of the loop of update_line_numbers, lines 69-91, for one
\* operation
ApplyLineOp(db, cached_line_objects, existing_lines, op) ==
    IF op.command = "equal"
    THEN Renumber(db, cached_line_objects[op.a_index + 1], op.a_index, op.b_index)
    ELSE IF op.command = "delete"
    THEN DeleteLine(db, cached_line_objects[op.a_index + 1])
    ELSE IF op.command = "insert"
    THEN IF op.b_index # NoIndex
         THEN CreateLine(db, existing_lines[op.b_index + 1], op.b_index)
         ELSE db
    ELSE LET deleted == IF op.a_index # NoIndex
                        THEN DeleteLine(db, cached_line_objects[op.a_index + 1])
                        ELSE db
         IN  IF op.b_index # NoIndex
             THEN CreateLine(deleted, existing_lines[op.b_index + 1], op.b_index)
             ELSE deleted

RECURSIVE ApplyLineOps(_, _, _, _)
ApplyLineOps(db, cached_line_objects, existing_lines, ops) ==
    IF ops = <<>> THEN db
    ELSE ApplyLineOps(ApplyLineOp(db, cached_line_objects, existing_lines, Head(ops)),
                      cached_line_objects, existing_lines, Tail(ops))

\* lines 63-66: the Line rows of a file that has none yet
RECURSIVE CreateLinesFrom(_, _, _)
CreateLinesFrom(db, existing_lines, i) ==
    IF i >= Len(existing_lines) THEN db
    ELSE CreateLinesFrom(CreateLine(db, existing_lines[i + 1], i), existing_lines, i + 1)

\* update_line_numbers(filename): [lines, mutants, hash] afterwards
update_line_numbers(lines, mutants, stored_hash, existing_lines) ==
    LET db == [lines |-> lines, mutants |-> mutants]
        cached_line_objects == OrderByLineNumber(lines, LivePks(lines))
        cached_lines == [k \in DOMAIN cached_line_objects |-> lines[cached_line_objects[k]].line]
    IN  IF hash_of(existing_lines) = stored_hash
        THEN [lines |-> lines, mutants |-> mutants, hash |-> stored_hash]
        ELSE IF cached_lines = <<>>
        THEN LET created == CreateLinesFrom(db, existing_lines, 0)
             IN  [lines |-> created.lines, mutants |-> created.mutants, hash |-> stored_hash]
        ELSE LET synced == ApplyLineOps(db, cached_line_objects, existing_lines,
                                        sequence_ops(cached_lines, existing_lines))
             IN  [lines |-> synced.lines, mutants |-> synced.mutants,
                  hash |-> hash_of(existing_lines)]

\* every id has its Line row: register_mutants does not raise
CanRegisterMutants(lines, mutation_ids) ==
    \A k \in DOMAIN mutation_ids :
        Cardinality(LineGet(lines, mutation_ids[k].line, mutation_ids[k].line_number)) = 1

(***************************************************************************)
(* The source file on disk and the text a text-mode open() reads and       *)
(* writes. A file is a sequence of bytes: "a" stands for a piece of code,  *)
(* "m" for its mutated form, "CR" and "LF" for the two line-ending bytes.  *)
(***************************************************************************)
\* the content of a file that does not exist
Absent == <<"absent">>

\* open(filename).read(): universal newlines, "\r\n", "\r" and "\n" all read
\* as the one character "\n" (here "NL")
RECURSIVE ReadText(_)
ReadText(bytes) ==
    IF bytes = <<>> THEN <<>>
    ELSE IF Head(bytes) = "CR"
         THEN <<"NL">> \o ReadText(IF Len(bytes) > 1 /\ bytes[2] = "LF"
                                   THEN Tail(Tail(bytes)) ELSE Tail(bytes))
         ELSE IF Head(bytes) = "LF" THEN <<"NL">> \o ReadText(Tail(bytes))
         ELSE <<Head(bytes)>> \o ReadText(Tail(bytes))

\* os.linesep of the platform the tests run on
linesep == <<"LF">>

\* open(filename, "w").write(text): every "\n" is written as os.linesep
RECURSIVE WriteText(_)
WriteText(text) ==
    IF text = <<>> THEN <<>>
    ELSE (IF Head(text) = "NL" THEN linesep ELSE <<Head(text)>>) \o WriteText(Tail(text))

\* mutate_from_context(context)[0] for the mutant under test: the text with
\* its mutation site changed
RECURSIVE MutatedSource(_)
MutatedSource(text) ==
    IF text = <<>> THEN <<>>
    ELSE IF Head(text) = "a" THEN <<"m">> \o Tail(text)
         ELSE <<Head(text)>> \o MutatedSource(Tail(text))

\* mutate_file(backup=True, context): the disk afterwards
mutate_file(d) ==
    LET original == ReadText(d.src)
        mutated == MutatedSource(original)
    IN  [src |-> WriteText(mutated), bak |-> WriteText(original)]

\* move(context.filename + ".bak", context.filename)
MoveBackupBack(d) == [src |-> d.bak, bak |-> Absent]

(***************************************************************************)
(* mutation_test_runner/run_mutation.py: the decisions of run_mutation     *)
(***************************************************************************)
\* the number of project copies tested side by side in parallel mode
NUMBER_OF_PROCESSES_IN_PARALLELIZATION_MODE == 2

DefaultTestCommand == "python -m pytest -x"

\* a test command a pre_mutation hook of the user may set
HookTestCommand == "python -m pytest -x tests/test_a.py"

\* the early return of run_mutation takes a wrong turn: it returns the cached
\* status in a forced run of a single mutant and tests the mutant otherwise
ReturnsCachedWhenForced(cached_status, total) == cached_status # UNTESTED /\ total = 1

\* if cached_status != UNTESTED and context.config.total != 1
ReturnsCached(cached_status, total) == cached_status # UNTESTED /\ total # 1

\* a pre_mutation function that skips only by raising SkipException
HookSkipsOnRaiseOnly(dynamic_pre_mutation) == dynamic_pre_mutation = "raise_skip"

\* run_mutation, lines 62-67: the pre_mutation function of the dynamic config
\* raised SkipException, or came back with context.skip set
HookSkips(dynamic_pre_mutation) == dynamic_pre_mutation \in {"skip", "raise_skip"}

\* a rerun that does not ask for the rerun_all flag
ShouldRerunWithoutFlag(survived, cfg) ==
    survived /\ cfg.test_command # cfg.default_test_command

\* _should_rerun(survived, config)
_should_rerun(survived, cfg) ==
    /\ survived
    /\ cfg.test_command # cfg.default_test_command
    /\ cfg.rerun_all

_get_time_expected(cfg) ==
    LET time_expected == cfg.test_time_base
                         + (cfg.baseline_time_elapsed * cfg.test_time_multiplier)
    IN  IF cfg.parallelize
        THEN time_expected * NUMBER_OF_PROCESSES_IN_PARALLELIZATION_MODE
        ELSE time_expected

\* a run as long as expected is already called suspicious
StatusOfTestRunAtLeast(survived, time_elapsed, time_expected) ==
    IF ~survived /\ time_elapsed >= time_expected THEN OK_SUSPICIOUS
    ELSE IF survived THEN BAD_SURVIVED ELSE OK_KILLED

\* lines 88-94: the status of a test run that did not time out
StatusOfTestRun(survived, time_elapsed, time_expected) ==
    IF ~survived /\ time_elapsed > time_expected THEN OK_SUSPICIOUS
    ELSE IF survived THEN BAD_SURVIVED ELSE OK_KILLED

\* Runner.do_tests_pass: returncode != 1
tests_pass(returncode) == returncode # 1

\* the timeout handed to popen_streaming_output
TestTimeout(cfg) == cfg.baseline_time_elapsed * 10

(***************************************************************************)
(* The state of one run_mutation call, of the test subprocess and of the   *)
(* worker that makes the calls.                                            *)
(***************************************************************************)
NoReturn == [kind |-> "none", value |-> ""]
Return(status) == [kind |-> "return", value |-> status]
Raise(exception) == [kind |-> "raise", value |-> exception]

NoMutationId == RelativeMutationID("", 0 - 1, 0 - 1)

NoRun ==
    [pc |-> "idle", mutation_id |-> NoMutationId, before |-> <<>>, effects |-> {},
     cached_status |-> UNTESTED, survived |-> FALSE, reran |-> FALSE,
     killed |-> FALSE, measured |-> FALSE, time_elapsed |-> 0, ret |-> NoReturn,
     tests_run |-> <<>>, outcomes |-> <<>>, post_mutation |-> <<>>]

\* no test subprocess, no Timer
NoProc == [child |-> "none", returncode |-> {}, timer |-> "none"]

NoConfig ==
    [total |-> 0, parallelize |-> FALSE, rerun_all |-> FALSE,
     test_command |-> DefaultTestCommand, default_test_command |-> DefaultTestCommand,
     dynamic_pre_mutation |-> "none", hooks |-> FALSE,
     test_time_base |-> 0, baseline_time_elapsed |-> 0, test_time_multiplier |-> 0]

\* the run variables of a specification that makes no run_mutation call
RunIdle ==
    /\ disk = [src |-> <<>>, bak |-> Absent]
    /\ config = NoConfig
    /\ run = NoRun
    /\ proc = NoProc
    /\ worker = [queue |-> <<>>, results |-> <<>>, state |-> "ended"]

(***************************************************************************)
(* mutate/mutate.py, mutations/mutations.py and context.py: the mutation   *)
(* engine.  A text is a sequence of atoms: a word, a number, an operator,  *)
(* one space or one newline; a node of the syntax tree has its type, its   *)
(* prefix (the spaces before it), its value or its children, the line and  *)
(* the offsets where it starts and ends.                                   *)
(***************************************************************************)
Leaf(type, prefix, value) ==
    [type |-> type, prefix |-> prefix, value |-> value, children |-> <<>>,
     line |-> 0, start |-> 0, end |-> 0]

Node(type, children) ==
    [type |-> type, prefix |-> <<>>, value |-> <<>>, children |-> children,
     line |-> 0, start |-> 0, end |-> 0]

\* node.get_code(): the text of a node, prefixes included
RECURSIVE get_code(_)
get_code(node) ==
    IF node.children = <<>> THEN node.prefix \o node.value
    ELSE LET RECURSIVE codes(_)
             codes(children) ==
                 IF children = <<>> THEN <<>>
                 ELSE get_code(Head(children)) \o codes(Tail(children))
         IN  codes(node.children)

\* s.replace(old, new)
RECURSIVE str_replace(_, _, _)
str_replace(s, old, new) ==
    IF Len(s) < Len(old) THEN s
    ELSE IF SubSeq(s, 1, Len(old)) = old
         THEN new \o str_replace(SubSeq(s, Len(old) + 1, Len(s)), old, new)
         ELSE <<Head(s)>> \o str_replace(Tail(s), old, new)

\* split_lines(s): s.split("\n")
RECURSIVE split_lines(_)
split_lines(s) ==
    IF \A i \in DOMAIN s : s[i] # "\n" THEN <<s>>
    ELSE LET i == CHOOSE k \in DOMAIN s : s[k] = "\n" /\ \A j \in 1..(k - 1) : s[j] # "\n"
         IN  <<SubSeq(s, 1, i - 1)>> \o split_lines(SubSeq(s, i + 1, Len(s)))

\* the one element of a set {e}: {body : x \in {e}} has e evaluated once for
\* a body that uses it many times
The(S) == CHOOSE x \in S : TRUE

\* the start and end positions parso gives the nodes of a tree: the line
\* (from 1) and the offsets of the first and after the last atom of a node,
\* its prefix not counted
RECURSIVE Locate(_, _, _)
Locate(nodes, line, offset) ==
    IF nodes = <<>> THEN [nodes |-> <<>>, line |-> line, offset |-> offset]
    ELSE The({The({The({[nodes |-> <<located>> \o rest.nodes, line |-> rest.line,
                         offset |-> rest.offset] :
                rest \in {Locate(Tail(nodes),
                                 IF located.children # <<>> THEN inner.line
                                 ELSE IF located.type = "newline" THEN line + 1
                                 ELSE line,
                                 located.end)}}) :
            located \in {IF inner.nodes = <<>>
                         THEN [Head(nodes) EXCEPT
                                  !.line = line,
                                  !.start = offset + Len(Head(nodes).prefix),
                                  !.end = offset + Len(Head(nodes).prefix)
                                          + Len(Head(nodes).value)]
                         ELSE [Head(nodes) EXCEPT
                                  !.children = inner.nodes,
                                  !.line = inner.nodes[1].line,
                                  !.start = inner.nodes[1].start,
                                  !.end = inner.offset]}}) :
        inner \in {Locate(Head(nodes).children, line, offset)}})

\* ---- the sources: assignments of small expressions ----
MaxStatements == 2     \* statements of a source
MaxNots == 2           \* "not" in front of an expression

BaseExprs ==
    {Leaf("name", <<" ">>, <<"b">>), Leaf("number", <<" ">>, <<"1">>),
     Leaf("keyword", <<" ">>, <<"True">>), Leaf("keyword", <<" ">>, <<"None">>)}
    \cup {Node("arith_expr", <<Leaf("name", <<" ">>, <<"b">>),
                               Leaf("operator", <<" ">>, <<op>>),
                               Leaf("name", <<" ">>, <<"c">>)>>) : op \in {"+", "-"}}

RECURSIVE NotTests(_)
NotTests(n) ==
    IF n = 0 THEN BaseExprs
    ELSE LET less == NotTests(n - 1)
         IN  less \cup {Node("not_test", <<Leaf("keyword", <<" ">>, <<"not">>), e>>) :
                            e \in less}

\* the statements the grammar gives: "a = <expression>" and "a += 1"
StatementTrees ==
    {Node("simple_stmt",
          <<Node("expr_stmt", <<Leaf("name", <<>>, <<"a">>),
                                Leaf("operator", <<" ">>, <<"=">>), e>>),
            Leaf("newline", <<>>, <<"\n">>)>>) : e \in NotTests(MaxNots)}
    \cup {Node("simple_stmt",
               <<Node("expr_stmt", <<Leaf("name", <<>>, <<"a">>),
                                     Leaf("operator", <<" ">>, <<"+=">>),
                                     Leaf("number", <<" ">>, <<"1">>)>>),
                 Leaf("newline", <<>>, <<"\n">>)>>)}

\* the comments at the end of a line: parso keeps a comment in the prefix
\* of the newline that ends the line
Comments ==
    {<<>>,
     <<" ", "# pragma:", " ", "no mutate">>,
     <<" ", "# pragma:", " ", "no cover", ",", " ", "no mutate">>,
     <<" ", "# ", "no mutate", " ", "# pragma:", " ", "no cover">>}

WithComment(stmt, comment) ==
    [stmt EXCEPT !.children[2].prefix = comment]

CommentedTrees == {WithComment(stmt, c) : stmt \in StatementTrees, c \in Comments}

\* the texts a caller gives as source: up to MaxStatements of these
\* statements, one line at most with a comment, with or without the last
\* newline
SourceTexts(statements) ==
    LET whole ==
            UNION {{get_code(Node("file_input",
                             [i \in 1..k |-> IF i = at THEN WithComment(stmts[i], c)
                                             ELSE stmts[i]])) :
                       stmts \in [1..k -> statements], at \in 1..k, c \in Comments} :
                   k \in 1..MaxStatements}
    IN  whole \cup {SubSeq(source, 1, Len(source) - 1) : source \in whole}

\* parse_source(source, error_recovery=False): the tree of a source of the
\* grammar, statement by statement, with the end marker after the last line
parse_source(source) ==
    LET lines == split_lines(source)
        stmts == [i \in 1..(Len(lines) - 1) |->
                     CHOOSE s \in CommentedTrees : get_code(s) = lines[i] \o <<"\n">>]
    IN  Locate(<<Node("file_input", stmts \o <<Leaf("endmarker", <<>>, <<>>)>>)>>,
               1, 0).nodes[1]

\* ---- context.py ----
ALL == RelativeMutationID(<<"%all%">>, NoIndex, NoIndex)

\* config.covered_lines_by_filename is None; <<lines>> stands for a map that
\* gives the file these covered lines
NoCoveredLines == <<>>

\* config=None
NoContextConfig ==
    [is_none |-> TRUE, mutation_types_to_apply |-> {}, covered_lines |-> NoCoveredLines]

\* the keys of mutations_by_type that are types of nodes of the grammar
MutationTypes == {"operator", "keyword", "number", "name", "expr_stmt"}

\* a Config with its mutation_types_to_apply and its covered lines
ContextConfig(types, covered) ==
    [is_none |-> FALSE, mutation_types_to_apply |-> types, covered_lines |-> covered]

\* Context(source=source, mutation_id=mutation_id, config=config), with
\* _set_source; sites and advances are history: where the performed
\* mutations were applied (start, end, type of the node), and the line of
\* every "context.index += 1"
NewContext(source, mutation_id, cfg) ==
    LET add == source # <<>> /\ source[Len(source)] # "\n"
    IN  [index |-> 0, remove_newline_at_end |-> add,
         source |-> IF add THEN source \o <<"\n">> ELSE source,
         mutation_id |-> mutation_id, performed_mutation_ids |-> <<>>,
         current_line_index |-> 0, config |-> cfg, mutated_source |-> <<>>,
         sites |-> <<>>, advances |-> <<>>]

\* s.partition(sep)[-1]: what follows the first sep, nothing without sep
AfterFirst(s, sep) ==
    IF \A i \in DOMAIN s : s[i] # sep THEN <<>>
    ELSE LET i == CHOOSE k \in DOMAIN s : s[k] = sep /\ \A j \in 1..(k - 1) : s[j] # sep
         IN  SubSeq(s, i + 1, Len(s))

\* Context.pragma_no_mutate_lines
pragma_no_mutate_lines(context) ==
    LET source_by_line_number == split_lines(context.source)
    IN  {i - 1 : i \in {k \in DOMAIN source_by_line_number :
            /\ \E j \in DOMAIN source_by_line_number[k] :
                   source_by_line_number[k][j] = "# pragma:"
            /\ \E j \in DOMAIN AfterFirst(source_by_line_number[k], "# pragma:") :
                   AfterFirst(source_by_line_number[k], "# pragma:")[j] = "no mutate"}}

\* Context.should_exclude(), the covered lines of the file taken from
\* config.covered_lines_by_filename
should_exclude(context) ==
    IF context.config.is_none \/ context.config.covered_lines = NoCoveredLines
    THEN FALSE
    ELSE IF context.config.covered_lines[1] = {} THEN TRUE
    ELSE (context.current_line_index + 1) \notin context.config.covered_lines[1]

\* exclude_line without its pragma lines
ExcludeLineByCoverageOnly(context) == should_exclude(context)

exclude_line(context) ==
    \/ context.current_line_index \in pragma_no_mutate_lines(context)
    \/ should_exclude(context)

mutation_id_of_current_index(context) ==
    RelativeMutationID(split_lines(context.source)[context.current_line_index + 1],
                       context.index, context.current_line_index)

\* Context.should_mutate(node)
should_mutate(node, context) ==
    IF /\ ~context.config.is_none
       /\ node.type \notin context.config.mutation_types_to_apply
    THEN FALSE
    ELSE \/ context.mutation_id = ALL
         \/ context.mutation_id \in {ALL, mutation_id_of_current_index(context)}

\* ---- mutations/mutations.py ----
is_operator(node) == node.type = "operator"

\* operator_mutation with the swap only for a compound assignment
OperatorMutationSwapOnly(value) ==
    CASE value = <<"+">> -> << <<"-">> >>
      [] value = <<"-">> -> << <<"+">> >>
      [] value = <<"+=">> -> << <<"-=">> >>
      [] value = <<"-=">> -> << <<"+=">> >>
      [] OTHER -> <<>>

\* operator_mutation with the reset to "=" before the swap
OperatorMutationResetFirst(value) ==
    CASE value = <<"+">> -> << <<"-">> >>
      [] value = <<"-">> -> << <<"+">> >>
      [] value = <<"+=">> -> << <<"=">>, <<"-=">> >>
      [] value = <<"-=">> -> << <<"=">>, <<"+=">> >>
      [] OTHER -> <<>>

\* operator_mutation(value, node): the alternatives, in the order of the
\* table; none for an operator that is not in it
operator_mutation(value) ==
    CASE value = <<"+">> -> << <<"-">> >>
      [] value = <<"-">> -> << <<"+">> >>
      [] value = <<"+=">> -> << <<"-=">>, <<"=">> >>
      [] value = <<"-=">> -> << <<"+=">>, <<"=">> >>
      [] OTHER -> <<>>

\* keyword_mutation(value, context), outside a comparison operator and a
\* for statement; "" is the empty text
keyword_mutation(value) ==
    CASE value = <<"not">> -> << <<>> >>
      [] value = <<"is">> -> << <<"is", " ", "not">> >>
      [] value = <<"in">> -> << <<"not", " ", "in">> >>
      [] value = <<"True">> -> << <<"False">> >>
      [] value = <<"False">> -> << <<"True">> >>
      [] OTHER -> <<>>

\* number_mutation(value) for a decimal integer: repr(int(value) + 1)
Numerals == <<"0", "1", "2", "3">>

number_mutation(value) ==
    LET parsed == (CHOOSE i \in DOMAIN Numerals : Numerals[i] = value[1]) - 1
    IN  << <<Numerals[parsed + 2]>> >>

\* name_mutation(node, value) for a name that is no subscript and no
\* argument of a call
name_mutation(value) ==
    CASE value = <<"True">> -> << <<"False">> >>
      [] value = <<"False">> -> << <<"True">> >>
      [] value = <<"deepcopy">> -> << <<"copy">> >>
      [] value = <<"None">> -> << <<"\"\"">> >>
      [] OTHER -> <<>>

\* expression_mutation(children), with its handle_assignment: the last
\* value becomes the name " None", or ' ""' where it was None
expression_mutation(children) ==
    LET handle_assignment(cs) ==
            LET last == cs[Len(cs)]
                x == IF last.value = <<"None">> THEN <<" ", "\"\"">>
                     ELSE <<" ", "None">>
            IN  [cs EXCEPT ![Len(cs)] =
                    [Leaf("name", <<>>, x) EXCEPT !.line = last.line,
                                                  !.start = last.start,
                                                  !.end = last.start + Len(x)]]
    IN  IF is_operator(children[1]) /\ children[1].value = <<":">>
        THEN IF /\ Len(children) > 2
                /\ is_operator(children[3])
                /\ children[3].value = <<"=">>
             THEN <<children[1]>> \o handle_assignment(Tail(children))
             ELSE children
        ELSE IF is_operator(children[2]) /\ children[2].value = <<"=">>
             THEN handle_assignment(children)
             ELSE children

\* mutations_by_type.get(node.type) applied to the node, and the new_list
\* of _mutate_node: the alternatives that are not None
Alternatives(node) ==
    CASE node.type = "operator" -> operator_mutation(node.value)
      [] node.type = "keyword" -> keyword_mutation(node.value)
      [] node.type = "number" -> number_mutation(node.value)
      [] node.type = "name" -> name_mutation(node.value)
      [] node.type \in {"expr_stmt", "annassign"} ->
             <<expression_mutation(node.children)>>
      [] OTHER -> <<>>

\* ---- mutate/mutate.py ----
\* "this is just an optimization to stop early"
Stopped(context) ==
    context.performed_mutation_ids # <<>> /\ context.mutation_id # ALL

\* the body of the loop with the index advanced for a performed mutation only
ApplyAlternativeIndexOnHit(node, old, context, new) ==
    LET hit == new # old /\ should_mutate(node, context)
    IN  [node |-> IF ~hit THEN node
                  ELSE IF node.children = <<>>
                       THEN [node EXCEPT !.value = new]
                       ELSE [node EXCEPT !.children = new],
         context |->
             IF ~hit THEN context
             ELSE [context EXCEPT
                      !.performed_mutation_ids =
                          Append(@, mutation_id_of_current_index(context)),
                      !.sites = Append(@, <<node.start, node.end, node.type>>),
                      !.advances = Append(@, context.current_line_index),
                      !.index = @ + 1]]

\* the body of the loop without "context.index += 1"
ApplyAlternativeNoAdvance(node, old, context, new) ==
    LET hit == new # old /\ should_mutate(node, context)
    IN  [node |-> IF ~hit THEN node
                  ELSE IF node.children = <<>>
                       THEN [node EXCEPT !.value = new]
                       ELSE [node EXCEPT !.children = new],
         context |->
             IF new = old THEN context
             ELSE [context EXCEPT
                      !.performed_mutation_ids =
                          IF hit
                          THEN Append(@, mutation_id_of_current_index(context))
                          ELSE @,
                      !.sites = IF hit
                                THEN Append(@, <<node.start, node.end, node.type>>)
                                ELSE @,
                      !.advances = Append(@, context.current_line_index)]]

\* lines 150-159 of _mutate_node, the body of the loop: an alternative that
\* differs from the old value takes the next index of the line, and is
\* applied when the context says so
ApplyAlternative(node, old, context, new) ==
    LET hit == new # old /\ should_mutate(node, context)
    IN  [node |-> IF ~hit THEN node
                  ELSE IF node.children = <<>>
                       THEN [node EXCEPT !.value = new]
                       ELSE [node EXCEPT !.children = new],
         context |->
             IF new = old THEN context
             ELSE [context EXCEPT
                      !.performed_mutation_ids =
                          IF hit
                          THEN Append(@, mutation_id_of_current_index(context))
                          ELSE @,
                      !.sites = IF hit
                                THEN Append(@, <<node.start, node.end, node.type>>)
                                ELSE @,
                      !.advances = Append(@, context.current_line_index),
                      !.index = @ + 1]]

\* lines 139-162 of _mutate_node: the alternatives in reverse, until a
\* mutation was performed for the one id asked for
RECURSIVE ApplyAlternatives(_, _, _, _)
ApplyAlternatives(node, old, context, new_list) ==
    IF new_list = <<>> THEN [node |-> node, context |-> context]
    ELSE The({IF Stopped(r.context) THEN r
              ELSE ApplyAlternatives(r.node, old, r.context,
                                     SubSeq(new_list, 1, Len(new_list) - 1)) :
        r \in {ApplyAlternative(node, old, context, new_list[Len(new_list)])}})

RECURSIVE _mutate_node(_, _)
RECURSIVE MutateChildren(_, _, _)

\* the loop of _mutate_list_of_nodes: every child but those of a return
\* annotation, until a mutation was performed for the one id asked for
MutateChildren(children, context, return_annotation_started) ==
    IF children = <<>> THEN [children |-> <<>>, context |-> context]
    ELSE LET child_node == Head(children)
             started ==
                 /\ \/ return_annotation_started
                    \/ is_operator(child_node) /\ child_node.value = <<"->">>
                 /\ ~(is_operator(child_node) /\ child_node.value = <<":">>)
         IN  The({The({[children |-> <<r.node>> \o rest.children,
                        context |-> rest.context] :
                     rest \in {IF ~started /\ Stopped(r.context)
                               THEN [children |-> Tail(children), context |-> r.context]
                               ELSE MutateChildren(Tail(children), r.context, started)}}) :
                 r \in {IF started THEN [node |-> child_node, context |-> context]
                        ELSE _mutate_node(child_node, context)}})

_mutate_list_of_nodes(node, context) ==
    The({[node |-> [node EXCEPT !.children = r.children], context |-> r.context] :
            r \in {MutateChildren(node.children, context, FALSE)}})

\* _mutate_node(node, context), for a tree without imports and dunder names
_mutate_node(node, context) ==
    IF node.type \in {"tfpdef", "import_from", "import_name"}
    THEN [node |-> node, context |-> context]
    ELSE The({IF node.type = "annassign" /\ Len(node.children) = 2
              THEN [node |-> node, context |-> on_line]
              ELSE The({IF node.children # <<>> /\ Stopped(r.context) THEN r
                        ELSE IF node.type \notin MutationTypes \cup {"annassign"} THEN r
                        ELSE IF exclude_line(r.context) THEN r
                        ELSE ApplyAlternatives(r.node,
                                               IF node.children = <<>>
                                               THEN r.node.value
                                               ELSE r.node.children,
                                               r.context, Alternatives(r.node)) :
                       r \in {IF node.children # <<>>
                              THEN _mutate_list_of_nodes(node, on_line)
                              ELSE [node |-> node, context |-> on_line]}}) :
        on_line \in {IF node.line - 1 # context.current_line_index
                     THEN [context EXCEPT !.current_line_index = node.line - 1,
                                          !.index = 0]
                     ELSE context}})

\* mutate_from_context that serializes the tree as it was parsed
MutateFromContextOfParsedTree(context) ==
    The({LET code == str_replace(get_code(parse_source(context.source)),
                                 <<" ", "not", " ", "not", " ">>, <<" ">>)
             mutated_source == IF context.remove_newline_at_end
                               THEN SubSeq(code, 1, Len(code) - 1)
                               ELSE code
         IN  [mutated_source |-> mutated_source,
              count |-> Len(r.context.performed_mutation_ids),
              raised |-> /\ r.context.performed_mutation_ids # <<>>
                         /\ context.source = mutated_source,
              context |-> [r.context EXCEPT !.mutated_source = mutated_source]] :
        r \in {_mutate_list_of_nodes(parse_source(context.source), context)}})

\* mutate_from_context(context): the mutated text, the number of mutations
\* performed, and whether RuntimeError was raised
mutate_from_context(context) ==
    The({LET code == str_replace(get_code(r.node),
                                 <<" ", "not", " ", "not", " ">>, <<" ">>)
             mutated_source == IF context.remove_newline_at_end
                               THEN SubSeq(code, 1, Len(code) - 1)
                               ELSE code
         IN  [mutated_source |-> mutated_source,
              count |-> Len(r.context.performed_mutation_ids),
              raised |-> /\ r.context.performed_mutation_ids # <<>>
                         /\ context.source = mutated_source,
              context |-> [r.context EXCEPT !.mutated_source = mutated_source]] :
        r \in {_mutate_list_of_nodes(parse_source(context.source), context)}})

\* list_mutations(context)
list_mutations(context) == mutate_from_context(context).context

\* the hash of a SourceFile row that was never synced
NoFileHash == <<"no hash">>

NoEdit == [pc |-> "none", at |-> 0, old_file |-> <<>>, old_lines |-> <<>>,
           old_mutants |-> <<>>, lookups |-> 0]

\* the line variables of a specification that edits no file
LinesIdle ==
    /\ sourcefile = [hash |-> NoFileHash]
    /\ edit = NoEdit

\* the mutation variable of a specification that mutates no source
MutateIdle ==
    mutation = [pc |-> "idle", source |-> <<>>, config |-> NoContextConfig,
                mutation_ids |-> <<>>, sites |-> <<>>, advances |-> <<>>,
                selected |-> 0, mutated_source |-> <<>>,
                count |-> 0, raised |-> FALSE]

\* Progress(total, output_legend, no_progress): nothing registered
NewProgress ==
    [progress |-> 0, skipped |-> 0, killed_mutants |-> 0, surviving_mutants |-> 0,
     surviving_mutants_timeout |-> 0, suspicious_mutants |-> 0]

\* compute_exit_code was not called
NoExit == [pc |-> "running", exception |-> "None", ci |-> FALSE, code |-> 0 - 1]

\* no run over the file yet
NoRerun == [pc |-> "none", again |-> FALSE, mutation_ids |-> <<>>, sites |-> <<>>,
            config |-> NoContextConfig, lines |-> <<>>, mutants |-> <<>>]

\* the MiscData row of a key that was never written
NoRow == "<no row>"

NoMiscData == [version |-> NoRow, baseline_time_elapsed |-> NoRow, hash_of_tests |-> NoRow]

\* no process has touched the cache
NoSchema == [provider |-> "None", misc |-> NoMiscData, printed |-> FALSE,
             processes |-> 0, calls |-> 0, op |-> "none", raised |-> "None",
             result |-> <<>>, initial |-> <<>>, entered |-> <<>>]

\* no mutant was listed for dispatch
NoDispatch == [pc |-> "none", source |-> <<>>, mutation_ids |-> <<>>, tested |-> {},
               k |-> 1, index |-> 0, queue |-> <<>>, written |-> <<>>]

\* the later variables of a specification that does not use them
\* no enumeration was asked for
NoListing == [pc |-> "none", source |-> <<>>, config |-> <<>>, index |-> 0,
              fresh |-> <<>>, other |-> <<>>]

LaterIdle ==
    /\ schema = NoSchema
    /\ listing = NoListing
    /\ dispatch = NoDispatch

\* the variables of the end of the run, in a specification that has no end
\* and no second run
ExitIdle ==
    /\ progress = NewProgress
    /\ exit = NoExit
    /\ rerun = NoRerun
    /\ LaterIdle

\* the pipeline variables of a specification that runs no pipeline
OrchIdle ==
    /\ mutants_queue = <<>>
    /\ results_queue = <<>>
    /\ producer = [pc |-> "done", mutations |-> <<>>]
    /\ workers = <<>>
    /\ coordinator = [pc |-> "returned"]
    /\ tally = <<>>

(***************************************************************************)
(* The cache specification: a file that was indexed once, status updates   *)
(* by the coordinator, edits of the test suite and the two lookups.        *)
(***************************************************************************)
\* the Line rows update_line_numbers creates for a file indexed for the
\* first time: one per line, numbered from 0
FirstIndexing(f) == [p \in 1..Len(f) |-> [line |-> f[p], line_number |-> p - 1]]

FilesUpTo(n) == UNION {[1..k -> LineTexts] : k \in 1..n}

InitCache ==
    /\ file \in FilesUpTo(MaxFileLines)
    /\ dbLines = FirstIndexing(file)
    /\ dbMutants = register_mutants(dbLines, <<>>, MutationIdsOf(file))
    /\ testsHash \in HashResults
    /\ lookup = NoLookup
    /\ updates = 0
    /\ RunIdle
    /\ OrchIdle
    /\ LinesIdle
    /\ MutateIdle
    /\ ExitIdle

\* a new run finds the test suite changed
ChangeTestsHash ==
    /\ lookup = NoLookup
    /\ \E h \in HashResults \ {testsHash} : testsHash' = h
    /\ UNCHANGED <<file, dbLines, dbMutants, lookup, updates>>
    /\ UNCHANGED notCacheVars

\* the coordinator stores the status a worker reported
UpdateMutantStatus ==
    /\ lookup = NoLookup
    /\ updates < MaxUpdates
    /\ updates' = updates + 1
    /\ \E mutation_id \in Range(MutationIdsOf(file)), status \in ResultStatuses :
          /\ CanUpdateMutantStatus(dbLines, dbMutants, mutation_id)
          /\ dbMutants' = update_mutant_status(dbLines, dbMutants, mutation_id,
                                               status, testsHash)
    /\ UNCHANGED <<file, dbLines, testsHash, lookup>>
    /\ UNCHANGED notCacheVars

\* run_mutation asks for the status of one mutant
CachedMutationStatus ==
    /\ lookup = NoLookup
    /\ \E mutation_id \in Range(MutationIdsOf(file)) :
          LET r == cached_mutation_status(dbLines, dbMutants, mutation_id, testsHash)
          IN  /\ dbMutants' = r.mutants
              /\ lookup' = [op |-> "cached_mutation_status", hash |-> testsHash,
                            raised |-> r.raised,
                            result |-> IF r.raised THEN <<>>
                                       ELSE (mutation_id :> r.status)]
    /\ UNCHANGED <<file, dbLines, testsHash, updates>>
    /\ UNCHANGED notCacheVars

\* the producer asks for the statuses of a list of mutants of the file
GetCachedMutationStatuses ==
    /\ lookup = NoLookup
    /\ \E mutations \in MutationLists(file) :
          LET r == get_cached_mutation_statuses(dbLines, dbMutants, mutations, testsHash)
          IN  /\ dbMutants' = r.mutants
              /\ lookup' = [op |-> "get_cached_mutation_statuses", hash |-> testsHash,
                            raised |-> r.raised, result |-> r.result]
    /\ UNCHANGED <<file, dbLines, testsHash, updates>>
    /\ UNCHANGED notCacheVars

\* the caller has consumed what the lookup returned
LookupReturned ==
    /\ lookup # NoLookup
    /\ lookup' = NoLookup
    /\ UNCHANGED <<file, dbLines, dbMutants, testsHash, updates>>
    /\ UNCHANGED notCacheVars

NextCache ==
    \/ LookupReturned
    \/ ChangeTestsHash
    \/ UpdateMutantStatus
    \/ CachedMutationStatus
    \/ GetCachedMutationStatuses

SpecCache == InitCache /\ [][NextCache]_vars

(***************************************************************************)
(* Claims about the cache lookups.                                         *)
(***************************************************************************)
\* the row a lookup of mutation_id is about, in the tables as they are
RowOf(mutation_id) ==
    CHOOSE row \in StoredMutant(dbLines, dbMutants, mutation_id) : TRUE

\* C2: a mutant whose stored status is killed is reported as killed by both
\* lookups, whatever the current tests hash is.
C2_KilledIsSticky ==
    \A mutation_id \in DOMAIN lookup.result :
        RowOf(mutation_id).status = OK_KILLED => lookup.result[mutation_id] = OK_KILLED

\* C2, for cached_mutation_status alone: there the killed status is sticky
C2_KilledIsStickySingleLookup ==
    lookup.op = "cached_mutation_status" => C2_KilledIsSticky

C2_Witness ==
    /\ lookup.op = "cached_mutation_status"
    /\ \E mutation_id \in DOMAIN lookup.result :
          /\ RowOf(mutation_id).status = OK_KILLED
          /\ RowOf(mutation_id).tested_against_hash # lookup.hash
          /\ lookup.hash = NO_TESTS_FOUND

\* C3: for a stored status other than killed, cached_mutation_status reports
\* untested when the hash the mutant was tested against differs from the
\* current tests hash or is the "no tests found" sentinel, and the stored
\* status only when the two hashes are equal and not the sentinel.
C3_StaleReadsUntested ==
    lookup.op = "cached_mutation_status" =>
        \A mutation_id \in DOMAIN lookup.result :
            LET row == RowOf(mutation_id)
            IN  row.status # OK_KILLED =>
                  lookup.result[mutation_id] =
                      IF \/ row.tested_against_hash # lookup.hash
                         \/ row.tested_against_hash = NO_TESTS_FOUND
                      THEN UNTESTED
                      ELSE row.status

\* a survived mutant tested against the sentinel, looked up under the sentinel
C3_Witness ==
    /\ lookup.op = "cached_mutation_status"
    /\ \E mutation_id \in DOMAIN lookup.result :
          /\ RowOf(mutation_id).status = BAD_SURVIVED
          /\ RowOf(mutation_id).tested_against_hash = NO_TESTS_FOUND
          /\ lookup.hash = NO_TESTS_FOUND
          /\ lookup.result[mutation_id] = UNTESTED

\* the other case of C3: the stored status passes through
C3_WitnessPassThrough ==
    /\ lookup.op = "cached_mutation_status"
    /\ \E mutation_id \in DOMAIN lookup.result :
          /\ RowOf(mutation_id).status = OK_SUSPICIOUS
          /\ lookup.result[mutation_id] = OK_SUSPICIOUS

(***************************************************************************)
(* The run specification: a worker (check_mutants) takes the mutants of a  *)
(* file from its queue one by one and calls run_mutation on each. The test *)
(* subprocess and the Timer thread of popen_streaming_output run beside    *)
(* the worker, which is blocked reading the output of the subprocess.      *)
(***************************************************************************)
MaxTailBytes == 1      \* line-ending bytes after the code of the source file
MaxElapsed == 11       \* the longest elapsed time a test run is measured at

LineEndings == {"CR", "LF"}

\* the source files: a piece of code and line-ending bytes after it
RunSources == {<<"a">> \o tail : tail \in UNION {[1..k -> LineEndings] : k \in 0..MaxTailBytes}}

\* what a pre_mutation function of the user's mutmut_config.py does: there is
\* none, it does nothing, it sets context.skip, it raises SkipException, or
\* it sets context.config.test_command
DynamicPreMutations == {"none", "pass", "skip", "raise_skip", "test_command"}

\* the configurations of the run specification: one timing, every hook
HookConfigs ==
    {[total |-> t, parallelize |-> FALSE, rerun_all |-> r,
      test_command |-> DefaultTestCommand, default_test_command |-> DefaultTestCommand,
      dynamic_pre_mutation |-> d, hooks |-> h,
      test_time_base |-> 0, baseline_time_elapsed |-> 1, test_time_multiplier |-> 2] :
        t \in {1, 2}, r \in BOOLEAN, d \in DynamicPreMutations, h \in BOOLEAN}

\* the configurations of the timing specification: no hook, every timing
TimeConfigs ==
    {[total |-> 2, parallelize |-> p, rerun_all |-> FALSE,
      test_command |-> DefaultTestCommand, default_test_command |-> DefaultTestCommand,
      dynamic_pre_mutation |-> "none", hooks |-> FALSE,
      test_time_base |-> b, baseline_time_elapsed |-> e, test_time_multiplier |-> m] :
        p \in BOOLEAN, b \in {0, 1}, e \in {1, 2}, m \in {1, 2}}

\* the Mutant rows of an earlier run under the current tests hash: every row
\* has some status, and a tested row the hash it was tested against
StoredRuns(mutants, hash) ==
    {[p \in DOMAIN mutants |->
        [mutants[p] EXCEPT !.status = st[p],
                           !.tested_against_hash = IF st[p] = UNTESTED THEN NoHash ELSE hash]] :
        st \in [DOMAIN mutants -> {UNTESTED} \cup ResultStatuses]}

InitRunWith(sources, configs) ==
    /\ file = <<"B">>
    /\ dbLines = FirstIndexing(file)
    /\ testsHash = "h1"
    /\ dbMutants \in StoredRuns(register_mutants(dbLines, <<>>, MutationIdsOf(file)), testsHash)
    /\ lookup = NoLookup
    /\ updates = 0
    /\ disk \in {[src |-> s, bak |-> Absent] : s \in sources}
    /\ config \in configs
    /\ run = NoRun
    /\ proc = NoProc
    /\ worker = [queue |-> MutationIdsOf(file), results |-> <<>>, state |-> "running"]
    /\ OrchIdle
    /\ LinesIdle
    /\ MutateIdle
    /\ ExitIdle

InitRun == InitRunWith(RunSources, HookConfigs)

InitRunTimed == InitRunWith({<<"a", "LF">>}, TimeConfigs)

\* check_mutants, lines 103-107: the next item of the mutants queue; "end"
\* (here: the queue is used up) ends the worker
WorkerGet ==
    /\ run.pc = "idle"
    /\ worker.state = "running"
    /\ IF worker.queue = <<>>
       THEN /\ worker' = [worker EXCEPT !.state = "ended",
                              !.results = Append(@, [tag |-> "end", status |-> "",
                                                     mutation_id |-> NoMutationId])]
            /\ UNCHANGED run
       ELSE /\ worker' = [worker EXCEPT !.queue = Tail(@)]
            /\ run' = [NoRun EXCEPT !.pc = "begin", !.mutation_id = Head(worker.queue),
                                    !.before = disk.src]
    /\ UNCHANGED <<disk, config, proc>>
    /\ UNCHANGED cacheVars
    /\ UNCHANGED notRunVars

\* run_mutation, lines 51-70: the cached status, the pre_mutation function of
\* the dynamic config and the pre_mutation command
RunMutationBegin ==
    /\ run.pc = "begin"
    /\ LET r == cached_mutation_status(dbLines, dbMutants, run.mutation_id, testsHash)
           dyn == config.dynamic_pre_mutation
           pre == (IF dyn # "none" THEN {"dynamic pre_mutation"} ELSE {})
       IN  /\ ~r.raised
           /\ dbMutants' = r.mutants
           /\ IF ReturnsCached(r.status, config.total)
              THEN /\ run' = [run EXCEPT !.pc = "returned", !.cached_status = r.status,
                                         !.ret = Return(r.status)]
                   /\ UNCHANGED config
              ELSE IF HookSkips(dyn)
              THEN /\ run' = [run EXCEPT !.pc = "returned", !.cached_status = r.status,
                                         !.effects = pre, !.ret = Return(SKIPPED)]
                   /\ UNCHANGED config
              ELSE /\ run' = [run EXCEPT !.pc = "mutate", !.cached_status = r.status,
                                 !.effects = pre \cup (IF config.hooks THEN {"pre_mutation"}
                                                       ELSE {})]
                   /\ config' = [config EXCEPT !.test_command =
                                    IF dyn = "test_command" THEN HookTestCommand ELSE @]
    /\ UNCHANGED <<disk, proc, worker>>
    /\ UNCHANGED <<file, dbLines, testsHash, lookup, updates>>
    /\ UNCHANGED notRunVars

\* line 75: mutate_file(backup=True, ...); a pre_mutation_ast function of the
\* dynamic config can raise SkipException out of mutate_from_context, when
\* the backup is written and the mutant is not (lines 95-96)
MutateFile ==
    /\ run.pc = "mutate"
    /\ \/ /\ disk' = mutate_file(disk)
          /\ run' = [run EXCEPT !.pc = "tests", !.effects = @ \cup {"backup", "write"}]
       \/ /\ config.dynamic_pre_mutation # "none"
          /\ disk' = [disk EXCEPT !.bak = mutate_file(disk).bak]
          /\ run' = [run EXCEPT !.pc = "finally", !.effects = @ \cup {"backup"},
                                !.ret = Return(SKIPPED)]
    /\ UNCHANGED <<config, proc, worker>>
    /\ UNCHANGED cacheVars
    /\ UNCHANGED notRunVars

\* popen_streaming_output, lines 38-55: the subprocess and its Timer start
StartTests ==
    /\ run.pc = "tests"
    /\ proc' = [child |-> "running", returncode |-> {}, timer |-> "waiting"]
    /\ run' = [run EXCEPT !.pc = "reading", !.effects = @ \cup {"tests"},
                          !.tests_run = Append(@, config.test_command)]
    /\ UNCHANGED <<disk, config, worker>>
    /\ UNCHANGED cacheVars
    /\ UNCHANGED notRunVars

\* the test run raises an exception nobody expects (the command cannot be
\* started)
TestsRaise ==
    /\ run.pc = "tests"
    /\ run' = [run EXCEPT !.pc = "finally", !.effects = @ \cup {"tests"},
                          !.tests_run = Append(@, config.test_command),
                          !.outcomes = Append(@, "raised"),
                          !.ret = Raise("OSError")]
    /\ UNCHANGED <<disk, config, proc, worker>>
    /\ UNCHANGED cacheVars
    /\ UNCHANGED notRunVars

\* the test subprocess ends by itself: 0 all tests passed, 1 tests failed,
\* 2 the run was interrupted or could not be made
ChildExits ==
    /\ proc.child = "running"
    /\ \E returncode \in {0, 1, 2} :
          proc' = [proc EXCEPT !.child = "exited", !.returncode = {returncode}]
    /\ UNCHANGED <<disk, config, run, worker>>
    /\ UNCHANGED cacheVars
    /\ UNCHANGED notRunVars

\* the Timer thread wakes up after the timeout and runs kill(process): a
\* subprocess still running is killed (returncode -9)
TimerFires ==
    /\ proc.timer = "waiting"
    /\ proc' = [proc EXCEPT !.timer = "fired",
                    !.child = IF @ = "running" THEN "killed" ELSE @,
                    !.returncode = IF proc.child = "running" THEN {0 - 9} ELSE @]
    /\ run' = [run EXCEPT !.killed = @ \/ proc.child = "running"]
    /\ UNCHANGED <<disk, config, worker>>
    /\ UNCHANGED cacheVars
    /\ UNCHANGED notRunVars

\* the Timer thread, back from kill(process), ends: is_alive() is False from
\* now on
TimerEnds ==
    /\ proc.timer = "fired"
    /\ proc' = [proc EXCEPT !.timer = "finished"]
    /\ UNCHANGED <<disk, config, run, worker>>
    /\ UNCHANGED cacheVars
    /\ UNCHANGED notRunVars

\* lines 70-75: the worker reads the output up to the end of file, which
\* comes when the subprocess is gone
ReadToEOF ==
    /\ run.pc = "reading"
    /\ proc.child # "running"
    /\ run' = [run EXCEPT !.pc = "check"]
    /\ UNCHANGED <<disk, config, proc, worker>>
    /\ UNCHANGED cacheVars
    /\ UNCHANGED notRunVars

\* lines 81-92 of popen_streaming_output, then do_tests_pass and lines 78-84
\* of run_mutation: a Timer that is no longer alive raises TimeoutError,
\* which run_mutation turns into the timeout status; otherwise poll() sets
\* the returncode, the Timer is cancelled, and the tests passed unless the
\* returncode is 1; a mutant that survived a test command set by a hook is
\* tested again with the default command
CheckTimer ==
    /\ run.pc = "check"
    /\ IF proc.timer = "finished"
       THEN /\ run' = [run EXCEPT !.pc = "finally", !.ret = Return(BAD_TIMEOUT),
                                  !.outcomes = Append(@, "timeout")]
            /\ UNCHANGED <<proc, config>>
       ELSE LET returncode == CHOOSE c \in proc.returncode : TRUE
                survived == tests_pass(returncode)
            IN  /\ proc' = [proc EXCEPT !.timer = IF @ = "waiting" THEN "cancelled" ELSE @]
                /\ IF _should_rerun(survived, config)
                   THEN /\ config' = [config EXCEPT !.test_command = config.default_test_command]
                        /\ run' = [run EXCEPT !.pc = "tests", !.reran = TRUE,
                                              !.outcomes = Append(@, "survived")]
                   ELSE /\ run' = [run EXCEPT !.pc = "classify", !.survived = survived,
                                       !.outcomes = Append(@, IF survived THEN "survived"
                                                              ELSE "detected")]
                        /\ UNCHANGED config
    /\ UNCHANGED <<disk, worker>>
    /\ UNCHANGED cacheVars
    /\ UNCHANGED notRunVars

\* what time() - start can be: a test run the Timer killed took the timeout
\* at least
ElapsedTimes(killed, timeout) ==
    {t \in 0..MaxElapsed : killed => (t >= timeout \/ t = MaxElapsed)}

\* lines 86-94: the elapsed time against the expected time
Classify ==
    /\ run.pc = "classify"
    /\ \E time_elapsed \in ElapsedTimes(run.killed, TestTimeout(config)) :
          run' = [run EXCEPT !.pc = "finally", !.measured = TRUE,
                             !.time_elapsed = time_elapsed,
                             !.ret = Return(StatusOfTestRun(run.survived, time_elapsed,
                                                            _get_time_expected(config)))]
    /\ UNCHANGED <<disk, config, proc, worker>>
    /\ UNCHANGED cacheVars
    /\ UNCHANGED notRunVars

\* lines 98-108, the finally block: the backup is moved back, the test
\* command is reset and the post_mutation command runs
Finally ==
    /\ run.pc = "finally"
    /\ disk.bak # Absent
    /\ disk' = MoveBackupBack(disk)
    /\ config' = [config EXCEPT !.test_command = config.default_test_command]
    /\ run' = [run EXCEPT !.pc = "returned",
                   !.effects = @ \cup {"move"}
                               \cup (IF config.hooks THEN {"post_mutation"} ELSE {}),
                   !.post_mutation = IF config.hooks
                                     THEN Append(@, MoveBackupBack(disk))
                                     ELSE @]
    /\ proc' = NoProc
    /\ UNCHANGED worker
    /\ UNCHANGED cacheVars
    /\ UNCHANGED notRunVars

\* check_mutants, lines 115-123: the status goes to the results queue and the
\* loop goes on; an exception out of run_mutation ends the worker, whose
\* finally block reports "end"
WorkerPut ==
    /\ run.pc = "returned"
    /\ run' = [run EXCEPT !.pc = "idle"]
    /\ IF run.ret.kind = "return"
       THEN worker' = [worker EXCEPT !.results =
                          Append(@, [tag |-> "status", status |-> run.ret.value,
                                     mutation_id |-> run.mutation_id])]
       ELSE worker' = [worker EXCEPT !.state = "crashed",
                          !.results = Append(@, [tag |-> "end", status |-> "",
                                                 mutation_id |-> NoMutationId])]
    /\ UNCHANGED <<disk, config, proc>>
    /\ UNCHANGED cacheVars
    /\ UNCHANGED notRunVars

NextRun ==
    \/ WorkerGet
    \/ RunMutationBegin
    \/ MutateFile
    \/ StartTests
    \/ TestsRaise
    \/ ChildExits
    \/ TimerFires
    \/ TimerEnds
    \/ ReadToEOF
    \/ CheckTimer
    \/ Classify
    \/ Finally
    \/ WorkerPut

SpecRun == InitRun /\ [][NextRun]_vars

SpecRunTimed == InitRunTimed /\ [][NextRun]_vars

(***************************************************************************)
(* Claims about run_mutation.                                              *)
(***************************************************************************)
\* a run_mutation call has returned or raised (the worker may have reported
\* it since)
CallIsOver == run.pc \in {"returned", "idle"} /\ run.mutation_id # NoMutationId

\* C1: when a run_mutation call that wrote the backup and the mutant returns
\* or raises, the bytes of the source file are the bytes it had before the
\* call, whatever the outcome of the test run.
C1_FileRestored ==
    (CallIsOver /\ "write" \in run.effects) => disk.src = run.before

\* C1 up to line endings: the text of the file is the text before the call
C1_TextRestored ==
    (CallIsOver /\ "write" \in run.effects) =>
        /\ ReadText(disk.src) = ReadText(run.before)
        /\ disk.bak = Absent

C1_TextRestoredWitness ==
    /\ CallIsOver
    /\ "write" \in run.effects
    /\ run.ret = Raise("OSError")
    /\ disk.src = run.before

\* the threshold of the claim as written: the same for every configuration
ThresholdAsWritten ==
    config.test_time_base + config.baseline_time_elapsed * config.test_time_multiplier

\* C5 as written: a detected mutant whose test run did not time out is
\* suspicious exactly when the elapsed time is above test_time_base +
\* baseline_time_elapsed * test_time_multiplier, with or without parallelize.
C5_ThresholdEveryConfiguration ==
    (CallIsOver /\ run.measured /\ ~run.survived) =>
        run.ret = Return(IF run.time_elapsed > ThresholdAsWritten
                         THEN OK_SUSPICIOUS ELSE OK_KILLED)

\* C5 as amended: the threshold is that expression without the parallelize
\* flag and the expression times the number of parallel processes with it;
\* an elapsed time equal to the threshold yields killed.
C5_ThresholdWithParallelFactor ==
    (CallIsOver /\ run.measured /\ ~run.survived) =>
        LET factor == IF config.parallelize
                      THEN NUMBER_OF_PROCESSES_IN_PARALLELIZATION_MODE ELSE 1
        IN  run.ret = Return(IF run.time_elapsed > ThresholdAsWritten * factor
                             THEN OK_SUSPICIOUS ELSE OK_KILLED)

\* a parallel run whose elapsed time is above the written threshold and equal
\* to the threshold of the code: killed
C5_Witness ==
    /\ CallIsOver /\ run.measured /\ ~run.survived
    /\ config.parallelize
    /\ run.time_elapsed = ThresholdAsWritten * NUMBER_OF_PROCESSES_IN_PARALLELIZATION_MODE
    /\ run.ret = Return(OK_KILLED)

\* C6: a test run that the Timer killed makes run_mutation return the timeout
\* status (no exception leaves it), with the source file restored, and the
\* worker goes on with the next mutant.
C6_TimeoutReported ==
    (CallIsOver /\ run.killed) =>
        /\ run.ret = Return(BAD_TIMEOUT)
        /\ disk.src = run.before
        /\ worker.state # "crashed"

\* C6 without the restored bytes: the status of a killed test run
C6_TimeoutStatus ==
    (CallIsOver /\ run.killed) => run.ret = Return(BAD_TIMEOUT)

\* the status the cache has for the mutant of the call
CachedStatusOfCall == StatusOfMutant(RowOf(run.mutation_id), testsHash)

\* C7: with a cached status other than untested, in a run of more than one
\* mutant, run_mutation returns that status and does nothing else: no backup,
\* no write or move of the source file, no hook, no test command.
C7_CachedStatusReturned ==
    (CallIsOver /\ CachedStatusOfCall # UNTESTED /\ config.total # 1) =>
        /\ run.ret = Return(CachedStatusOfCall)
        /\ run.effects = {}
        /\ disk.src = run.before
        /\ disk.bak = Absent

C7_Witness ==
    /\ run.pc = "returned"
    /\ CachedStatusOfCall = BAD_SURVIVED
    /\ config.total # 1
    /\ config.hooks
    /\ config.dynamic_pre_mutation = "pass"
    /\ run.ret = Return(BAD_SURVIVED)

\* C11: when the pre_mutation function of the user raises SkipException or
\* sets context.skip, run_mutation returns skipped and the source file is
\* not touched: no backup, no mutant written, no test command run, nothing
\* moved.
C11_HookSkipLeavesFileAlone ==
    (/\ CallIsOver
     /\ "dynamic pre_mutation" \in run.effects
     /\ config.dynamic_pre_mutation \in {"skip", "raise_skip"}) =>
        /\ run.ret = Return(SKIPPED)
        /\ run.effects \cap {"backup", "write", "tests", "move"} = {}
        /\ disk.src = run.before
        /\ disk.bak = Absent

\* the function set context.skip for a mutant that had to be tested, in a
\* file with CR line endings
C11_Witness ==
    /\ run.pc = "returned"
    /\ config.dynamic_pre_mutation = "skip"
    /\ run.mutation_id # NoMutationId
    /\ run.cached_status = UNTESTED
    /\ run.ret = Return(SKIPPED)
    /\ disk.src = <<"a", "CR">>

\* a call that did not return the cached status at line 57
TestCycle ==
    CallIsOver /\ ~ReturnsCached(run.cached_status, config.total)

\* the post_mutation command ran once, with the backup moved back
PostMutationRanOnceAfterMove ==
    /\ Len(run.post_mutation) = 1
    /\ run.post_mutation[1].bak = Absent
    /\ ReadText(run.post_mutation[1].src) = ReadText(run.before)

\* C12: with a post_mutation command configured, every call of run_mutation
\* that goes through the test cycle runs the command exactly once, whatever
\* the outcome (killed, survived, suspicious, timeout, skipped), and after
\* the source file was restored.
C12_PostHookEveryOutcome ==
    (TestCycle /\ config.hooks /\ run.ret.kind = "return") =>
        PostMutationRanOnceAfterMove

\* C12 for the calls that reached the try block of run_mutation (line 74)
C12_PostHookAfterTry ==
    (TestCycle /\ config.hooks /\ "backup" \in run.effects) =>
        PostMutationRanOnceAfterMove

C12_PostHookAfterTryWitness ==
    /\ TestCycle
    /\ config.hooks
    /\ run.reran
    /\ run.ret = Return(BAD_TIMEOUT)
    /\ Len(run.post_mutation) = 1

\* the first test run of the call, and the last one
FirstRunAsksForRerun ==
    /\ run.outcomes[1] = "survived"
    /\ config.rerun_all
    /\ run.tests_run[1] # config.default_test_command

\* the test command was run once; or, after a first run that asks for it,
\* once more with the default command, and the second run decides
RerunRule(killed_statuses) ==
    IF FirstRunAsksForRerun
    THEN /\ Len(run.tests_run) = 2
         /\ run.tests_run[2] = config.default_test_command
         /\ run.ret = CASE run.outcomes[2] = "timeout" -> Return(BAD_TIMEOUT)
                         [] run.outcomes[2] = "survived" -> Return(BAD_SURVIVED)
                         [] OTHER -> run.ret
         /\ run.outcomes[2] = "detected" => run.ret.value \in killed_statuses
    ELSE Len(run.tests_run) = 1

\* C13 as written: with rerun_all set and a test command other than the
\* default, a first run that leaves the mutant undetected is followed by
\* exactly one run of the default command, whose result is the status (a
\* mutant the rerun detects is reported killed); otherwise the test command
\* is run exactly once.
C13_RerunDecidesKilled ==
    (CallIsOver /\ run.tests_run # <<>> /\ run.ret.kind = "return") =>
        RerunRule({OK_KILLED})

\* C13 as amended: a mutant the rerun detects is reported killed, or
\* suspicious when the time since the start of the first run is above the
\* expected time.
C13_RerunDecidesDetected ==
    (CallIsOver /\ run.tests_run # <<>> /\ run.ret.kind = "return") =>
        /\ RerunRule({OK_KILLED, OK_SUSPICIOUS})
        /\ (Len(run.outcomes) = 2 /\ run.outcomes[2] = "detected") =>
               run.ret = Return(IF run.time_elapsed > _get_time_expected(config)
                                THEN OK_SUSPICIOUS ELSE OK_KILLED)

\* a mutant that passed the command of the hook and was detected by the rerun
C13_Witness ==
    /\ CallIsOver
    /\ run.tests_run = <<HookTestCommand, DefaultTestCommand>>
    /\ run.outcomes = <<"survived", "detected">>
    /\ run.ret = Return(OK_KILLED)

(***************************************************************************)
(* The pipeline specification: run_mutation_tests starts the queue_mutants *)
(* thread and a check_mutants process, and reads the results queue; a      *)
(* worker that has tested cycle_process_after mutants asks to be replaced. *)
(***************************************************************************)
MaxQueue == 2          \* the maxsize of the two queues
MaxCycle == 2          \* the largest cycling threshold
MaxProgressLines == 1  \* output lines a test run feeds back

\* the files of the pipeline specification
OrchFiles == {<<"A">>, <<"B">>, <<"A", "A">>, <<"A", "B">>}

\* the statuses an earlier run left behind, and the statuses a test gives
RerunStatuses == {UNTESTED, OK_KILLED, BAD_SURVIVED}
TestStatuses == {OK_KILLED, BAD_SURVIVED}

\* StoredRuns, for the statuses of a given set
StoredRunsOf(mutants, hash, statuses) ==
    {m \in StoredRuns(mutants, hash) : \A p \in DOMAIN m : m[p].status \in statuses}

\* an item of the mutants queue or of the results queue
QueueItem(command, status, mutation_id) ==
    [command |-> command, status |-> status, mutation_id |-> mutation_id]

\* a check_mutants process at its start
NewWorker ==
    [pc |-> "get", count |-> 0, did_cycle |-> FALSE, lines |-> 0,
     mutation_id |-> NoMutationId, status |-> "", sent |-> <<>>]

ZeroOf(ids) == [id \in ids |-> 0]

InitOrch ==
    /\ file \in OrchFiles
    /\ dbLines = FirstIndexing(file)
    /\ testsHash = "h1"
    /\ dbMutants \in StoredRunsOf(register_mutants(dbLines, <<>>, MutationIdsOf(file)),
                                  testsHash, RerunStatuses)
    /\ lookup = NoLookup
    /\ updates = 0
    /\ RunIdle
    /\ LinesIdle
    /\ MutateIdle
    /\ ExitIdle
    /\ mutants_queue = <<>>
    /\ results_queue = <<>>
    /\ producer = [pc |-> "lookup", mutations |-> MutationIdsOf(file), k |-> 1,
                   cached_mutation_statuses |-> <<>>, single_statuses |-> <<>>,
                   ends |-> 0]
    /\ workers = <<NewWorker>>
    /\ \E cycle_process_after \in 1..MaxCycle :
          coordinator = [pc |-> "get", t |-> 1, cycle_process_after |-> cycle_process_after]
    /\ tally = [by_producer |-> [id \in Range(MutationIdsOf(file)) |-> <<>>],
                dispatched |-> ZeroOf(Range(MutationIdsOf(file))),
                tested |-> ZeroOf(Range(MutationIdsOf(file))),
                registered |-> ZeroOf(Range(MutationIdsOf(file))),
                updated |-> ZeroOf(Range(MutationIdsOf(file)))]

\* _get_mutants_by_testing_status, lines 69-73: the statuses of the file's
\* mutants, looked up in one go (single_statuses: what cached_mutation_status
\* answers for each of them at that moment)
QueueMutantsLookup ==
    /\ producer.pc = "lookup"
    /\ \E r \in {get_cached_mutation_statuses(dbLines, dbMutants, producer.mutations,
                                                testsHash)} :
           /\ ~r.raised
           /\ dbMutants' = r.mutants
           /\ producer' = [producer EXCEPT
                  !.pc = "loop",
                  !.cached_mutation_statuses = r.result,
                  !.single_statuses =
                      [id \in Range(producer.mutations) |->
                          cached_mutation_status(dbLines, r.mutants, id, testsHash).status]]
    /\ UNCHANGED <<file, dbLines, testsHash, lookup, updates>>
    /\ UNCHANGED <<mutants_queue, results_queue, workers, coordinator, tally>>
    /\ UNCHANGED notOrchVars

\* status != UNTESTED
_is_tested(status) == status # UNTESTED

\* the step for the next mutant with a put that never waits for room
QueueMutantsNextNoBound ==
    /\ producer.pc = "loop"
    /\ producer.k <= Len(producer.mutations)
    /\ LET mutation_id == producer.mutations[producer.k]
           cached_status == producer.cached_mutation_statuses[mutation_id]
       IN  IF _is_tested(cached_status)
           THEN /\ tally' = [tally EXCEPT !.by_producer[mutation_id] = Append(@, cached_status)]
                /\ UNCHANGED mutants_queue
           ELSE /\ mutants_queue' = Append(mutants_queue, QueueItem("mutant", "", mutation_id))
                /\ tally' = [tally EXCEPT !.dispatched[mutation_id] = @ + 1]
    /\ producer' = [producer EXCEPT !.k = @ + 1]
    /\ UNCHANGED <<results_queue, workers, coordinator>>
    /\ UNCHANGED <<cacheVars, notOrchVars>>

\* queue_mutants, lines 42-46, for the next mutant: a tested one is
\* registered, an untested one is put on the mutants queue (which blocks
\* while the queue is full)
QueueMutantsNext ==
    /\ producer.pc = "loop"
    /\ producer.k <= Len(producer.mutations)
    /\ LET mutation_id == producer.mutations[producer.k]
           cached_status == producer.cached_mutation_statuses[mutation_id]
       IN  IF _is_tested(cached_status)
           THEN /\ tally' = [tally EXCEPT !.by_producer[mutation_id] = Append(@, cached_status)]
                /\ UNCHANGED mutants_queue
           ELSE /\ Len(mutants_queue) < MaxQueue
                /\ mutants_queue' = Append(mutants_queue, QueueItem("mutant", "", mutation_id))
                /\ tally' = [tally EXCEPT !.dispatched[mutation_id] = @ + 1]
    /\ producer' = [producer EXCEPT !.k = @ + 1]
    /\ UNCHANGED <<results_queue, workers, coordinator>>
    /\ UNCHANGED <<cacheVars, notOrchVars>>

\* queue_mutants, lines 48-50: an "end" item for every process of the
\* parallel mode
QueueMutantsEnd ==
    /\ producer.pc = "loop"
    /\ producer.k > Len(producer.mutations)
    /\ Len(mutants_queue) < MaxQueue
    /\ mutants_queue' = Append(mutants_queue, QueueItem("end", "", NoMutationId))
    /\ producer' = [producer EXCEPT
           !.ends = @ + 1,
           !.pc = IF producer.ends + 1 = NUMBER_OF_PROCESSES_IN_PARALLELIZATION_MODE
                  THEN "done" ELSE @]
    /\ UNCHANGED <<results_queue, workers, coordinator, tally>>
    /\ UNCHANGED <<cacheVars, notOrchVars>>

\* check_mutants, lines 160-162: the next item of the mutants queue
CheckMutantsGet(w) ==
    /\ workers[w].pc = "get"
    /\ mutants_queue # <<>>
    /\ mutants_queue' = Tail(mutants_queue)
    /\ workers' = [workers EXCEPT ![w] =
           IF Head(mutants_queue).command = "end"
           THEN [@ EXCEPT !.pc = "finally"]
           ELSE [@ EXCEPT !.pc = "run", !.mutation_id = Head(mutants_queue).mutation_id,
                          !.lines = 0]]
    /\ UNCHANGED <<results_queue, producer, coordinator, tally>>
    /\ UNCHANGED <<cacheVars, notOrchVars>>

\* the feedback callback, lines 152-153: a line of test output goes to the
\* results queue
CheckMutantsFeedback(w) ==
    /\ workers[w].pc = "run"
    /\ workers[w].lines < MaxProgressLines
    /\ Len(results_queue) < MaxQueue
    /\ results_queue' = Append(results_queue, QueueItem("progress", "", NoMutationId))
    /\ workers' = [workers EXCEPT ![w].lines = @ + 1,
                                  ![w].sent = Append(@, "progress")]
    /\ UNCHANGED <<mutants_queue, producer, coordinator, tally>>
    /\ UNCHANGED <<cacheVars, notOrchVars>>

\* line 165: run_mutation returns a status
CheckMutantsRun(w) ==
    /\ workers[w].pc = "run"
    /\ \E status \in TestStatuses :
          workers' = [workers EXCEPT ![w].pc = "put", ![w].status = status]
    /\ tally' = [tally EXCEPT !.tested[workers[w].mutation_id] = @ + 1]
    /\ UNCHANGED <<mutants_queue, results_queue, producer, coordinator>>
    /\ UNCHANGED <<cacheVars, notOrchVars>>

\* lines 166-168: the status goes to the results queue; the worker that has
\* tested cycle_process_after mutants stops taking mutants
CheckMutantsPutStatus(w) ==
    /\ workers[w].pc = "put"
    /\ Len(results_queue) < MaxQueue
    /\ results_queue' = Append(results_queue,
                               QueueItem("status", workers[w].status, workers[w].mutation_id))
    /\ workers' = [workers EXCEPT
           ![w].count = @ + 1,
           ![w].sent = Append(@, "status"),
           ![w].pc = IF workers[w].count + 1 = coordinator.cycle_process_after
                     THEN "cycle" ELSE "get"]
    /\ UNCHANGED <<mutants_queue, producer, coordinator, tally>>
    /\ UNCHANGED <<cacheVars, notOrchVars>>

\* a worker that asks to be replaced and goes on with its loop
CheckMutantsPutCycleNoBreak(w) ==
    /\ workers[w].pc = "cycle"
    /\ Len(results_queue) < MaxQueue
    /\ results_queue' = Append(results_queue, QueueItem("cycle", "", NoMutationId))
    /\ workers' = [workers EXCEPT ![w].did_cycle = TRUE, ![w].pc = "get",
                                  ![w].sent = Append(@, "cycle")]
    /\ UNCHANGED <<mutants_queue, producer, coordinator, tally>>
    /\ UNCHANGED <<cacheVars, notOrchVars>>

\* lines 169-171: the worker asks to be replaced
CheckMutantsPutCycle(w) ==
    /\ workers[w].pc = "cycle"
    /\ Len(results_queue) < MaxQueue
    /\ results_queue' = Append(results_queue, QueueItem("cycle", "", NoMutationId))
    /\ workers' = [workers EXCEPT ![w].did_cycle = TRUE, ![w].pc = "finally",
                                  ![w].sent = Append(@, "cycle")]
    /\ UNCHANGED <<mutants_queue, producer, coordinator, tally>>
    /\ UNCHANGED <<cacheVars, notOrchVars>>

\* a worker that reports "end" whether or not it asked to be replaced
PutsEndAlways(did_cycle) == TRUE

\* line 173: if not did_cycle
PutsEnd(did_cycle) == ~did_cycle

\* lines 172-174, the finally block: "end" unless the worker cycled; the
\* process is over
CheckMutantsFinally(w) ==
    /\ workers[w].pc = "finally"
    /\ IF PutsEnd(workers[w].did_cycle)
       THEN /\ Len(results_queue) < MaxQueue
            /\ results_queue' = Append(results_queue, QueueItem("end", "", NoMutationId))
       ELSE UNCHANGED results_queue
    /\ workers' = [workers EXCEPT
           ![w].pc = "exited",
           ![w].sent = IF PutsEnd(workers[w].did_cycle) THEN Append(@, "end") ELSE @]
    /\ UNCHANGED <<mutants_queue, producer, coordinator, tally>>
    /\ UNCHANGED <<cacheVars, notOrchVars>>

\* run_mutation_tests, lines 528-538: a status is registered in progress and
\* stored in the cache
CoordinatorStatus ==
    /\ coordinator.pc = "get"
    /\ results_queue # <<>>
    /\ Head(results_queue).command = "status"
    /\ LET mutation_id == Head(results_queue).mutation_id
       IN  /\ CanUpdateMutantStatus(dbLines, dbMutants, mutation_id)
           /\ dbMutants' = update_mutant_status(dbLines, dbMutants, mutation_id,
                                                Head(results_queue).status, testsHash)
           /\ tally' = [tally EXCEPT !.registered[mutation_id] = @ + 1,
                                     !.updated[mutation_id] = @ + 1]
    /\ results_queue' = Tail(results_queue)
    /\ UNCHANGED <<file, dbLines, testsHash, lookup, updates>>
    /\ UNCHANGED <<mutants_queue, producer, workers, coordinator>>
    /\ UNCHANGED notOrchVars

\* lines 522-526: a line of output is printed
CoordinatorProgress ==
    /\ coordinator.pc = "get"
    /\ results_queue # <<>>
    /\ Head(results_queue).command = "progress"
    /\ results_queue' = Tail(results_queue)
    /\ UNCHANGED <<mutants_queue, producer, workers, coordinator, tally>>
    /\ UNCHANGED <<cacheVars, notOrchVars>>

\* a coordinator that takes "cycle" for the end of the run
CoordinatorCycleAsEnd ==
    /\ coordinator.pc = "get"
    /\ results_queue # <<>>
    /\ Head(results_queue).command = "cycle"
    /\ results_queue' = Tail(results_queue)
    /\ coordinator' = [coordinator EXCEPT !.pc = "join"]
    /\ UNCHANGED <<mutants_queue, producer, workers, tally>>
    /\ UNCHANGED <<cacheVars, notOrchVars>>

\* lines 519-520: a new worker replaces the one that cycled
CoordinatorCycle ==
    /\ coordinator.pc = "get"
    /\ results_queue # <<>>
    /\ Head(results_queue).command = "cycle"
    /\ results_queue' = Tail(results_queue)
    /\ workers' = Append(workers, NewWorker)
    /\ coordinator' = [coordinator EXCEPT !.t = Len(workers) + 1]
    /\ UNCHANGED <<mutants_queue, producer, tally>>
    /\ UNCHANGED <<cacheVars, notOrchVars>>

\* lines 515-517: "end" leads to t.join()
CoordinatorEnd ==
    /\ coordinator.pc = "get"
    /\ results_queue # <<>>
    /\ Head(results_queue).command = "end"
    /\ results_queue' = Tail(results_queue)
    /\ coordinator' = [coordinator EXCEPT !.pc = "join"]
    /\ UNCHANGED <<mutants_queue, producer, workers, tally>>
    /\ UNCHANGED <<cacheVars, notOrchVars>>

\* t.join() returns when the last worker is over, and so does
\* run_mutation_tests
CoordinatorJoin ==
    /\ coordinator.pc = "join"
    /\ workers[coordinator.t].pc = "exited"
    /\ coordinator' = [coordinator EXCEPT !.pc = "returned"]
    /\ UNCHANGED <<mutants_queue, results_queue, producer, workers, tally>>
    /\ UNCHANGED <<cacheVars, notOrchVars>>

NextOrch ==
    \/ QueueMutantsLookup
    \/ QueueMutantsNext
    \/ QueueMutantsEnd
    \/ \E w \in DOMAIN workers : CheckMutantsGet(w)
    \/ \E w \in DOMAIN workers : CheckMutantsFeedback(w)
    \/ \E w \in DOMAIN workers : CheckMutantsRun(w)
    \/ \E w \in DOMAIN workers : CheckMutantsPutStatus(w)
    \/ \E w \in DOMAIN workers : CheckMutantsPutCycle(w)
    \/ \E w \in DOMAIN workers : CheckMutantsFinally(w)
    \/ CoordinatorStatus
    \/ CoordinatorProgress
    \/ CoordinatorCycle
    \/ CoordinatorEnd
    \/ CoordinatorJoin

SpecOrch == InitOrch /\ [][NextOrch]_vars

(***************************************************************************)
(* Claims about the pipeline.                                              *)
(***************************************************************************)
MutantsOfRun == Range(producer.mutations)

\* C4: when run_mutation_tests returns, every dispatched mutant has exactly
\* one status registered in progress by the coordinator and exactly one cache
\* status update, for every cycling threshold; a mutant that was not
\* dispatched has none.
C4_OneStatusPerDispatchedMutant ==
    coordinator.pc = "returned" =>
        \A mutation_id \in DOMAIN tally.dispatched :
            /\ tally.dispatched[mutation_id] <= 1
            /\ tally.registered[mutation_id] = tally.dispatched[mutation_id]
            /\ tally.updated[mutation_id] = tally.dispatched[mutation_id]

\* three mutants dispatched with threshold 1: three workers, one per mutant
C4_Witness ==
    /\ coordinator.pc = "returned"
    /\ coordinator.cycle_process_after = 1
    /\ Len(workers) >= 3
    /\ \E a, b \in DOMAIN tally.dispatched :
          /\ a # b
          /\ tally.registered[a] = 1 /\ tally.updated[a] = 1
          /\ tally.registered[b] = 1 /\ tally.updated[b] = 1

\* C8: in a re-run under the same tests hash, once the producer is through,
\* every mutant whose cached status is not untested has been registered once
\* by the producer, with that status, and was never dispatched; every mutant
\* whose cached status is untested was dispatched exactly once.
C8_CachedMutantsNotDispatched ==
    (producer.pc = "done" /\ producer.mutations # <<>>) =>
        \A mutation_id \in MutantsOfRun :
            LET cached_status == producer.single_statuses[mutation_id]
            IN  IF cached_status # UNTESTED
                THEN /\ tally.by_producer[mutation_id] = <<cached_status>>
                     /\ tally.dispatched[mutation_id] = 0
                     /\ tally.tested[mutation_id] = 0
                ELSE /\ tally.by_producer[mutation_id] = <<>>
                     /\ tally.dispatched[mutation_id] = 1

\* C8 for the statuses the batch lookup returned, whatever row they came from
C8_ByBatchLookup ==
    (producer.pc = "done" /\ producer.mutations # <<>>) =>
        \A mutation_id \in MutantsOfRun :
            LET cached_status == producer.cached_mutation_statuses[mutation_id]
            IN  IF cached_status # UNTESTED
                THEN /\ tally.by_producer[mutation_id] = <<cached_status>>
                     /\ tally.dispatched[mutation_id] = 0
                     /\ tally.tested[mutation_id] = 0
                ELSE /\ tally.by_producer[mutation_id] = <<>>
                     /\ tally.dispatched[mutation_id] = 1

(***************************************************************************)
(* The line specification: a file that is in the cache, with its mutants   *)
(* tested or not, gets a new line; update_line_numbers re-syncs the Line   *)
(* rows and the statuses are looked up again.                              *)
(***************************************************************************)
MaxSyncLines == 3      \* lines of the file before the edit
MaxLookups == 1        \* statuses looked up after the re-sync

\* the text of the line the edit adds: it is no line of the file
NewLineText == "N"

\* the list a with x inserted so that it gets the 0-based position p
InsertAt(a, p, x) == SubSeq(a, 1, p) \o <<x>> \o SubSeq(a, p + 1, Len(a))

InitLines ==
    /\ file \in FilesUpTo(MaxSyncLines)
    /\ testsHash = "h1"
    /\ \/ /\ dbLines = FirstIndexing(file)
          /\ dbMutants \in StoredRunsOf(register_mutants(dbLines, <<>>, MutationIdsOf(file)),
                                        testsHash, RerunStatuses)
          /\ sourcefile = [hash |-> hash_of(file)]
       \/ /\ dbLines = <<>>
          /\ dbMutants = <<>>
          /\ sourcefile = [hash |-> NoFileHash]
    /\ lookup = NoLookup
    /\ updates = 0
    /\ edit = NoEdit
    /\ RunIdle
    /\ OrchIdle
    /\ MutateIdle
    /\ ExitIdle

\* the user adds a line to a file whose cache is up to date
InsertLine ==
    /\ edit.pc = "none"
    /\ lookup = NoLookup
    /\ sourcefile.hash = hash_of(file)
    /\ \E p \in 0..Len(file) :
          /\ file' = InsertAt(file, p, NewLineText)
          /\ edit' = [pc |-> "edited", at |-> p, old_file |-> file,
                      old_lines |-> dbLines, old_mutants |-> dbMutants,
                      lookups |-> 0]
    /\ UNCHANGED <<dbLines, dbMutants, testsHash, lookup, updates, sourcefile>>
    /\ UNCHANGED notLineVars

\* update_line_numbers(filename), at the start of a run
UpdateLineNumbers ==
    /\ lookup = NoLookup
    /\ sourcefile.hash # hash_of(file)
    /\ LET r == update_line_numbers(dbLines, dbMutants, sourcefile.hash, file)
       IN  /\ dbLines' = r.lines
           /\ dbMutants' = r.mutants
           /\ sourcefile' = [sourcefile EXCEPT !.hash = r.hash]
    /\ edit' = IF edit.pc = "edited" THEN [edit EXCEPT !.pc = "synced"] ELSE edit
    /\ UNCHANGED <<file, testsHash, lookup, updates>>
    /\ UNCHANGED notLineVars

\* register_mutants(mutations_by_file), after the mutations of the file were
\* listed: nothing for a file whose hash is the stored one; a ValueError, and
\* the rollback of the session, for an id without its Line
RegisterMutants ==
    /\ lookup = NoLookup
    /\ sourcefile.hash # hash_of(file)
    /\ CanRegisterMutants(dbLines, MutationIdsOf(file))
    /\ dbMutants' = register_mutants(dbLines, dbMutants, MutationIdsOf(file))
    /\ sourcefile' = [sourcefile EXCEPT !.hash = hash_of(file)]
    /\ UNCHANGED <<file, dbLines, testsHash, lookup, updates, edit>>
    /\ UNCHANGED notLineVars

\* cached_mutation_status(filename, mutation_id, hash_of_tests) for a site of
\* the re-synced file
LookupAfterSync ==
    /\ lookup = NoLookup
    /\ edit.pc = "synced"
    /\ edit.lookups < MaxLookups
    /\ \E mutation_id \in Range(MutationIdsOf(file)) :
          LET r == cached_mutation_status(dbLines, dbMutants, mutation_id, testsHash)
          IN  /\ dbMutants' = r.mutants
              /\ lookup' = [op |-> "cached_mutation_status", hash |-> testsHash,
                            raised |-> r.raised,
                            result |-> IF r.raised THEN <<>>
                                       ELSE (mutation_id :> r.status)]
    /\ edit' = [edit EXCEPT !.lookups = @ + 1]
    /\ UNCHANGED <<file, dbLines, testsHash, updates, sourcefile>>
    /\ UNCHANGED notLineVars

NextLines ==
    \/ InsertLine
    \/ UpdateLineNumbers
    \/ RegisterMutants
    \/ LookupAfterSync
    \/ LookupReturned

SpecLines == InitLines /\ [][NextLines]_vars

(***************************************************************************)
(* Claims about the re-sync of the line numbers.                           *)
(***************************************************************************)
\* where the line at position i of the old file is in the new file
NewPosition(i) == IF i < edit.at THEN i ELSE i + 1

\* the Line row the cache had for position i of the old file
OldLinePk(i) == CHOOSE p \in DOMAIN edit.old_lines : edit.old_lines[p].line_number = i

\* the Line of position i of the old file is the same row, renumbered, with
\* the Mutant rows it had
LineKept(i) ==
    LET pk == OldLinePk(i)
    IN  /\ dbLines[pk] = [line |-> edit.old_file[i + 1], line_number |-> NewPosition(i)]
        /\ \A m \in DOMAIN edit.old_mutants :
              edit.old_mutants[m].line = pk => dbMutants[m] = edit.old_mutants[m]

\* C9: after a line is inserted and the cache re-synced, every Line of the
\* old file keeps its Mutant rows (same key, index, status, hash) with only
\* the line number changed to the new position, and a lookup of a site under
\* its new line number returns the status stored before.
C9_UntouchedLinesKeepMutants ==
    edit.pc = "synced" =>
        /\ \A i \in 0..(Len(edit.old_file) - 1) : LineKept(i)
        /\ lookup.op = "cached_mutation_status" =>
              \A mutation_id \in DOMAIN lookup.result :
                  \A i \in 0..(Len(edit.old_file) - 1) :
                      (/\ mutation_id.line_number = NewPosition(i)
                       /\ mutation_id.line = edit.old_file[i + 1]) =>
                          LET before == cached_mutation_status(
                                  edit.old_lines, edit.old_mutants,
                                  RelativeMutationID(mutation_id.line, mutation_id.index, i),
                                  lookup.hash)
                          IN  lookup.result[mutation_id] = before.status

\* C9 for a file without two lines of the same text
C9_DistinctLinesKeepMutants ==
    (\A i, j \in DOMAIN edit.old_file : edit.old_file[i] = edit.old_file[j] => i = j)
        => C9_UntouchedLinesKeepMutants

C9_DistinctLinesWitness ==
    /\ edit.pc = "synced"
    /\ edit.old_file = <<"A", "B">>
    /\ edit.at = 1
    /\ lookup.op = "cached_mutation_status"
    /\ \E mutation_id \in DOMAIN lookup.result :
          /\ mutation_id.line_number = 2
          /\ lookup.result[mutation_id] = OK_KILLED

(***************************************************************************)
(* The mutation specification: the mutations of a source are listed, and   *)
(* one of the listed ids is applied with a new context.                    *)
(***************************************************************************)
InitMutateWith(sources, configs) ==
    /\ \E source \in sources, cfg \in configs :
          mutation = [pc |-> "source", source |-> source, config |-> cfg,
                      mutation_ids |-> <<>>, sites |-> <<>>, advances |-> <<>>,
                      selected |-> 0, mutated_source |-> <<>>,
                      count |-> 0, raised |-> FALSE]
    /\ file = <<>>
    /\ dbLines = <<>>
    /\ dbMutants = <<>>
    /\ testsHash = "h1"
    /\ lookup = NoLookup
    /\ updates = 0
    /\ RunIdle
    /\ OrchIdle
    /\ LinesIdle
    /\ ExitIdle

InitMutate == InitMutateWith(SourceTexts(StatementTrees), {NoContextConfig})

\* mutations = list_mutations(Context(source=source, config=config))
ListMutations ==
    /\ mutation.pc = "source"
    /\ \E context \in {list_mutations(NewContext(mutation.source, ALL, mutation.config))} :
          mutation' = [mutation EXCEPT
                          !.pc = "listed",
                          !.mutation_ids = context.performed_mutation_ids,
                          !.sites = context.sites,
                          !.advances = context.advances,
                          !.mutated_source = context.mutated_source,
                          !.count = Len(context.performed_mutation_ids)]
    /\ UNCHANGED notMutateVars

\* mutate_from_context(Context(source=source, mutation_id=mutations[i],
\* config=config))
MutateFromContext ==
    /\ mutation.pc = "listed"
    /\ \E i \in DOMAIN mutation.mutation_ids :
          \E r \in {mutate_from_context(NewContext(mutation.source,
                                                    mutation.mutation_ids[i],
                                                    mutation.config))} :
              mutation' = [mutation EXCEPT
                              !.pc = "mutated", !.selected = i,
                              !.mutated_source = r.mutated_source,
                              !.count = r.count, !.raised = r.raised]
    /\ UNCHANGED notMutateVars

NextMutate ==
    \/ ListMutations
    \/ MutateFromContext

SpecMutate == InitMutate /\ [][NextMutate]_vars

(***************************************************************************)
(* Claims about the selection of one mutation.                             *)
(***************************************************************************)
\* the text before the site of the selected id, and the text after it, are
\* those of the source
OutsideSiteKept ==
    LET site == mutation.sites[mutation.selected]
        source == mutation.source
        mutated == mutation.mutated_source
        after == Len(NewContext(source, ALL, NoContextConfig).source) - site[2]
                 - (IF NewContext(source, ALL, NoContextConfig).remove_newline_at_end
                    THEN 1 ELSE 0)
    IN  /\ Len(mutated) >= site[1] + after
        /\ SubSeq(mutated, 1, site[1]) = SubSeq(source, 1, site[1])
        /\ SubSeq(mutated, Len(mutated) - after + 1, Len(mutated))
               = SubSeq(source, Len(source) - after + 1, Len(source))
        /\ mutated # source

\* C10: for every id that list_mutations returns, mutate_from_context with
\* that id performs exactly one mutation and changes the text of that id's
\* site only: every other site, before or after it, keeps its text.
C10_OneMutationAtSelectedSite ==
    mutation.pc = "mutated" =>
        /\ ~mutation.raised
        /\ mutation.count = 1
        /\ OutsideSiteKept

HasDoubleNot(source) ==
    \E i \in 1..(Len(source) - 4) :
        SubSeq(source, i, i + 4) = <<" ", "not", " ", "not", " ">>

\* C10 for a source that has no " not not " in its text
C10_OneMutationWithoutDoubleNot ==
    ~HasDoubleNot(mutation.source) => C10_OneMutationAtSelectedSite

\* the second id of "a = b + c" gives "a = None", the plus sign is kept out
C10_SecondIdWitness ==
    /\ mutation.pc = "mutated"
    /\ mutation.source = <<"a", " ", "=", " ", "b", " ", "+", " ", "c">>
    /\ mutation.selected = 2
    /\ mutation.mutated_source = <<"a", " ", "=", " ", "None">>
    /\ mutation.count = 1

(***************************************************************************)
(* The mutation sites under a configuration: sources of a few statements,  *)
(* one line of them at most with a comment, and a Config that leaves out   *)
(* mutation types or gives the covered lines of the file.                  *)
(***************************************************************************)
MaxDisabledTypes == 1  \* mutation types left out of mutation_types_to_apply

\* "a = b + c", "a = not None" and "a += 1": operator, keyword, number and
\* expr_stmt sites; the names "a", "b" and "c" have no mutation
SiteStatements ==
    {stmt \in StatementTrees :
        LET e == stmt.children[1].children[3]
        IN  \/ e.type = "arith_expr" /\ e.children[2].value = <<"+">>
            \/ e.type = "not_test" /\ e.children[2].value = <<"None">>
            \/ stmt.children[1].children[2].value = <<"+=">>}

SiteSources == SourceTexts(SiteStatements)

SiteConfigs ==
    {NoContextConfig}
    \cup {ContextConfig(MutationTypes \ disabled, NoCoveredLines) :
              disabled \in {d \in SUBSET MutationTypes : Cardinality(d) <= MaxDisabledTypes}}
    \cup {ContextConfig(MutationTypes, <<covered>>) : covered \in SUBSET (1..MaxStatements)}

InitSites == InitMutateWith(SiteSources, SiteConfigs)

SpecSites == InitSites /\ [][NextMutate]_vars

\* the offset where line line_number (from 0) of a source starts
RECURSIVE LineStart(_, _)
LineStart(lines, line_number) ==
    IF line_number = 0 THEN 0
    ELSE LineStart(lines, line_number - 1) + Len(lines[line_number]) + 1

\* the candidates a listing recorded: line, index, column and type of node
Candidates(source, ids, sites) ==
    {[line_number |-> ids[i].line_number, index |-> ids[i].index,
      column |-> sites[i][1] - LineStart(split_lines(source), ids[i].line_number),
      type |-> sites[i][3]] : i \in DOMAIN ids}

\* a line without its comment
RECURSIVE StripComment(_)
StripComment(line) ==
    IF line = <<>> THEN <<>>
    ELSE IF Head(line) = "\n" THEN line
    ELSE IF Len(line) >= 2 /\ line[1] = " " /\ line[2] \in {"# pragma:", "# "}
         THEN IF line[Len(line)] = "\n" THEN <<"\n">> ELSE <<>>
         ELSE <<Head(line)>> \o StripComment(Tail(line))

RECURSIVE StripComments(_)
StripComments(source) ==
    IF \A i \in DOMAIN source : source[i] # "\n" THEN StripComment(source)
    ELSE LET i == CHOOSE k \in DOMAIN source :
                      source[k] = "\n" /\ \A j \in 1..(k - 1) : source[j] # "\n"
         IN  StripComment(SubSeq(source, 1, i)) \o StripComments(SubSeq(source, i + 1, Len(source)))

\* the candidates of the source when nothing is excluded: no comment, no Config
AllCandidates(source) ==
    LET plain == StripComments(source)
        context == list_mutations(NewContext(plain, ALL, NoContextConfig))
    IN  Candidates(plain, context.performed_mutation_ids, context.sites)

\* the whole line is excluded: a pragma on it, or a covered-lines map without it
LineExcluded(line_number) ==
    LET line == split_lines(mutation.source)[line_number + 1]
    IN  \/ \E i, j \in DOMAIN line :
               i < j /\ line[i] = "# pragma:" /\ line[j] = "no mutate"
        \/ /\ ~mutation.config.is_none
           /\ mutation.config.covered_lines # NoCoveredLines
           /\ (line_number + 1) \notin mutation.config.covered_lines[1]

TypeExcluded(type) ==
    ~mutation.config.is_none /\ type \notin mutation.config.mutation_types_to_apply

AdvancesOn(line_number) ==
    Cardinality({i \in DOMAIN mutation.advances : mutation.advances[i] = line_number})

\* the candidates that are not excluded, with the index they have when
\* nothing is excluded
KeptSites(all) ==
    {c \in all : ~LineExcluded(c.line_number) /\ ~TypeExcluded(c.type)}

\* C14 as stated: an excluded site is skipped, and the index of its line is
\* advanced once for every candidate, a skipped one too, so that the other
\* sites have the index they have when nothing is excluded.
C14_IndexAdvancedForEverySkipped ==
    mutation.pc = "listed" =>
        \A all \in {AllCandidates(mutation.source)} :
            /\ KeptSites(all)
                   = Candidates(mutation.source, mutation.mutation_ids, mutation.sites)
            /\ \A c \in all :
                   AdvancesOn(c.line_number)
                       = Cardinality({d \in all : d.line_number = c.line_number})

\* C14 amended: a site of a mutation type that is not enabled is skipped and
\* the index of its line is advanced for it; on a line excluded by a pragma
\* or by the covered lines every site is skipped and the index is not
\* advanced; the sites that are not excluded have the index they have when
\* nothing is excluded.
C14_IndexAdvancedForSkippedType ==
    mutation.pc = "listed" =>
        \A all \in {AllCandidates(mutation.source)} :
            /\ KeptSites(all)
                   = Candidates(mutation.source, mutation.mutation_ids, mutation.sites)
            /\ \A c \in all :
                   AdvancesOn(c.line_number)
                       = IF LineExcluded(c.line_number) THEN 0
                         ELSE Cardinality({d \in all : d.line_number = c.line_number})

\* "a = b + c" without the operator mutations: the assignment is still the
\* second site of its line
C14_Witness ==
    /\ mutation.pc = "listed"
    /\ mutation.source = <<"a", " ", "=", " ", "b", " ", "+", " ", "c", "\n">>
    /\ mutation.config = ContextConfig(MutationTypes \ {"operator"}, NoCoveredLines)
    /\ mutation.mutation_ids
           = <<RelativeMutationID(<<"a", " ", "=", " ", "b", " ", "+", " ", "c">>, 1, 0)>>
    /\ mutation.advances = <<0, 0>>
    /\ AllCandidates(mutation.source)
           = {[line_number |-> 0, index |-> 0, column |-> 6, type |-> "operator"],
              [line_number |-> 0, index |-> 1, column |-> 0, type |-> "expr_stmt"]}

\* the operators that operator_mutation gives two alternatives for
CompoundAssignments == {<<"+=">>, <<"-=">>}

\* the source with the atom at offset start replaced by new
WithAtom(source, start, new) ==
    SubSeq(source, 1, start) \o new \o SubSeq(source, start + 2, Len(source))

\* the id at this place of the listing is the first one listed for the site
\* of a compound assignment
FirstIdOfCompoundSite(at) ==
    /\ at \in DOMAIN mutation.sites
    /\ mutation.sites[at][3] = "operator"
    /\ mutation.source[mutation.sites[at][1] + 1] \in {o[1] : o \in CompoundAssignments}
    /\ at = 1 \/ mutation.sites[at - 1][1] # mutation.sites[at][1]

\* C15: a compound assignment gives one id for each alternative of
\* operator_mutation, with consecutive indices, in the reverse of the
\* returned order: the first id listed resets to "=", the second swaps the
\* operator, and each one applied alone performs one mutation.
C15_AlternativesListedInReverse ==
    /\ mutation.pc = "listed" =>
           \A at \in DOMAIN mutation.sites :
               FirstIdOfCompoundSite(at) =>
                   /\ at + 1 \in DOMAIN mutation.sites
                   /\ mutation.sites[at + 1] = mutation.sites[at]
                   /\ mutation.mutation_ids[at + 1]
                          = [mutation.mutation_ids[at] EXCEPT !.index = @ + 1]
                   /\ at + 2 \in DOMAIN mutation.sites
                          => mutation.sites[at + 2] # mutation.sites[at]
    /\ mutation.pc = "mutated" =>
           \A at \in DOMAIN mutation.sites :
               \A operator \in {<<mutation.source[mutation.sites[at][1] + 1]>>} :
                   /\ FirstIdOfCompoundSite(at) /\ mutation.selected = at =>
                          /\ mutation.count = 1
                          /\ mutation.mutated_source
                                 = WithAtom(mutation.source, mutation.sites[at][1],
                                            operator_mutation(operator)[2])
                          /\ operator_mutation(operator)[2] = <<"=">>
                   /\ FirstIdOfCompoundSite(at) /\ mutation.selected = at + 1 =>
                          /\ mutation.count = 1
                          /\ mutation.mutated_source
                                 = WithAtom(mutation.source, mutation.sites[at][1],
                                            operator_mutation(operator)[1])
                          /\ operator_mutation(operator)[1] \in CompoundAssignments

\* "a += 1": the second id listed, applied alone, gives "a -= 1"
C15_Witness ==
    /\ mutation.pc = "mutated"
    /\ mutation.config.is_none
    /\ mutation.source = <<"a", " ", "+=", " ", "1", "\n">>
    /\ mutation.mutation_ids[1] = RelativeMutationID(<<"a", " ", "+=", " ", "1">>, 0, 0)
    /\ mutation.mutation_ids[2] = RelativeMutationID(<<"a", " ", "+=", " ", "1">>, 1, 0)
    /\ mutation.selected = 2
    /\ mutation.count = 1
    /\ mutation.mutated_source = <<"a", " ", "-=", " ", "1", "\n">>

\* the swap of a compound assignment operator
SwapOf(operator) == IF operator = <<"+=">> THEN <<"-=">> ELSE <<"+=">>

\* the selected id belongs to the site of a compound assignment; what the
\* site reads in the source
SelectedCompound ==
    /\ mutation.pc = "mutated"
    /\ mutation.sites[mutation.selected][3] = "operator"
    /\ mutation.source[mutation.sites[mutation.selected][1] + 1]
           \in {o[1] : o \in CompoundAssignments}

SelectedOperator == <<mutation.source[mutation.sites[mutation.selected][1] + 1]>>

\* C16 as stated: at the site of a compound assignment the id with index 0
\* is the swap of the operator and the id with index 1 is the reset to "=".
C16_IndexZeroIsSwap ==
    SelectedCompound =>
        mutation.mutated_source
            = WithAtom(mutation.source, mutation.sites[mutation.selected][1],
                       IF mutation.mutation_ids[mutation.selected].index = 0
                       THEN SwapOf(SelectedOperator) ELSE <<"=">>)

\* C16 amended: at the site of a compound assignment the id with index 0 is
\* the reset to "=" and the id with index 1 is the swap of the operator;
\* the swap is what the site reads after all mutations were applied (the
\* last one applied).
C16_IndexZeroIsReset ==
    /\ SelectedCompound =>
           /\ mutation.mutation_ids[mutation.selected].index \in {0, 1}
           /\ mutation.mutated_source
                  = WithAtom(mutation.source, mutation.sites[mutation.selected][1],
                             IF mutation.mutation_ids[mutation.selected].index = 0
                             THEN <<"=">> ELSE SwapOf(SelectedOperator))
    /\ mutation.pc = "listed" =>
           \A at \in DOMAIN mutation.sites :
               FirstIdOfCompoundSite(at) =>
                   \A c \in Candidates(mutation.source, <<mutation.mutation_ids[at]>>,
                                        <<mutation.sites[at]>>) :
                       <<split_lines(mutation.mutated_source)[c.line_number + 1][c.column + 1]>>
                           = SwapOf(<<mutation.source[mutation.sites[at][1] + 1]>>)

\* "a += 1": the id with index 0, applied alone, gives "a = 1"
C16_Witness ==
    /\ mutation.pc = "mutated"
    /\ mutation.config.is_none
    /\ mutation.source = <<"a", " ", "+=", " ", "1", "\n">>
    /\ mutation.mutation_ids[mutation.selected]
           = RelativeMutationID(<<"a", " ", "+=", " ", "1">>, 0, 0)
    /\ mutation.count = 1
    /\ mutation.mutated_source = <<"a", " ", "=", " ", "1", "\n">>

\* the line has "# pragma:" and, later, "no mutate"
HasNoMutatePragma(line) ==
    \E i, j \in DOMAIN line : i < j /\ line[i] = "# pragma:" /\ line[j] = "no mutate"

\* after list_mutations: a line with the pragma has no id and keeps its
\* text in the mutated source; a line without it, in a run without Config,
\* has the ids it has when nothing is excluded, and its text is mutated
PragmaLinesKept ==
    \A lines \in {split_lines(mutation.source)}, all \in {AllCandidates(mutation.source)} :
        \A n \in DOMAIN lines :
            IF HasNoMutatePragma(lines[n])
            THEN /\ \A i \in DOMAIN mutation.mutation_ids :
                        /\ mutation.mutation_ids[i].line_number # n - 1
                        /\ mutation.mutation_ids[i].line # lines[n]
                 /\ split_lines(mutation.mutated_source)[n] = lines[n]
            ELSE (mutation.config.is_none /\ lines[n] # <<>>) =>
                     /\ {c \in Candidates(mutation.source, mutation.mutation_ids,
                                           mutation.sites) : c.line_number = n - 1}
                            = {c \in all : c.line_number = n - 1}
                     /\ \E c \in all : c.line_number = n - 1
                     /\ split_lines(mutation.mutated_source)[n] # lines[n]

\* C17: a line that has "# pragma:" followed later by "no mutate" yields no
\* mutant: list_mutations records no id of that line and the full mutation
\* leaves the text of the line unchanged, while the other lines are mutated.
C17_PragmaLineUntouched ==
    mutation.pc = "listed" => PragmaLinesKept

\* C17 for a source that has no " not not " in its text
C17_PragmaLineWithoutDoubleNot ==
    (mutation.pc = "listed" /\ ~HasDoubleNot(mutation.source)) => PragmaLinesKept

\* "a = b + c  # pragma: no cover, no mutate" before "a += 1": the ids of
\* the second line only, and the first line as it was
C17_Witness ==
    /\ mutation.pc = "listed"
    /\ mutation.source = <<"a", " ", "=", " ", "b", " ", "+", " ", "c", " ", "# pragma:",
                           " ", "no cover", ",", " ", "no mutate", "\n",
                           "a", " ", "+=", " ", "1", "\n">>
    /\ mutation.count = 3
    /\ \A i \in DOMAIN mutation.mutation_ids : mutation.mutation_ids[i].line_number = 1
    /\ mutation.mutated_source
           = <<"a", " ", "=", " ", "b", " ", "+", " ", "c", " ", "# pragma:",
               " ", "no cover", ",", " ", "no mutate", "\n",
               "a", " ", "-=", " ", "2", "\n">>

\* the ids whose mutation was performed: all of them by list_mutations, the
\* selected one by mutate_from_context with that id
PerformedIds ==
    IF mutation.pc = "listed" THEN DOMAIN mutation.mutation_ids
    ELSE IF mutation.count = 0 THEN {}
    ELSE {mutation.selected}

\* line by line: a line without a mutated site is kept, and so is, on a line
\* with mutated sites, what is before the first and after the last of them
OutsideSitesKept ==
    \A lines \in {split_lines(mutation.source)},
       mutated \in {split_lines(mutation.mutated_source)} :
        /\ Len(mutated) = Len(lines)
        /\ \A n \in DOMAIN lines :
               \A on_line \in {{i \in PerformedIds :
                                   mutation.mutation_ids[i].line_number = n - 1}} :
                   IF on_line = {} THEN mutated[n] = lines[n]
                   ELSE \A first \in {Min({mutation.sites[i][1] : i \in on_line})
                                          - LineStart(lines, n - 1)},
                           after \in {Len(lines[n]) + LineStart(lines, n - 1)
                                          - Max({mutation.sites[i][2] : i \in on_line})} :
                            /\ Len(mutated[n]) >= first + after
                            /\ SubSeq(mutated[n], 1, first) = SubSeq(lines[n], 1, first)
                            /\ SubSeq(mutated[n], Len(mutated[n]) - after + 1,
                                      Len(mutated[n]))
                                   = SubSeq(lines[n], Len(lines[n]) - after + 1,
                                            Len(lines[n]))

\* C18: the text mutate_from_context returns differs from the source only
\* inside the mutated sites; with no mutation performed it is the source,
\* and the count is 0.
C18_OnlyMutatedSitesChange ==
    mutation.pc \in {"listed", "mutated"} =>
        /\ OutsideSitesKept
        /\ mutation.count = Cardinality(PerformedIds)
        /\ mutation.count = 0 => mutation.mutated_source = mutation.source

\* C18 for a source that has no " not not " in its text
C18_OnlySitesChangeWithoutDoubleNot ==
    ~HasDoubleNot(mutation.source) => C18_OnlyMutatedSitesChange

(***************************************************************************)
(* The end of the run: the statuses registered in Progress, and the exit   *)
(* code computed from them.                                                *)
(***************************************************************************)
MaxRegistered == 3     \* mutants registered in Progress

\* a | b
RECURSIVE BitOr(_, _)
BitOr(a, b) ==
    IF a = 0 THEN b
    ELSE IF b = 0 THEN a
    ELSE (IF a % 2 = 1 \/ b % 2 = 1 THEN 1 ELSE 0) + 2 * BitOr(a \div 2, b \div 2)

\* compute_exit_code without its ci flag
ComputeExitCodeWithoutCi(p, exception, ci) ==
    LET code0 == IF exception # "None" THEN BitOr(0, 1) ELSE 0
        code1 == IF p.surviving_mutants > 0 THEN BitOr(code0, 2) ELSE code0
        code2 == IF p.surviving_mutants_timeout > 0 THEN BitOr(code1, 4) ELSE code1
        code3 == IF p.suspicious_mutants > 0 THEN BitOr(code2, 8) ELSE code2
    IN  code3

\* compute_exit_code(progress, exception, ci)
compute_exit_code(p, exception, ci) ==
    LET code0 == IF exception # "None" THEN BitOr(0, 1) ELSE 0
        code1 == IF p.surviving_mutants > 0 THEN BitOr(code0, 2) ELSE code0
        code2 == IF p.surviving_mutants_timeout > 0 THEN BitOr(code1, 4) ELSE code1
        code3 == IF p.suspicious_mutants > 0 THEN BitOr(code2, 8) ELSE code2
    IN  IF ci THEN code0 ELSE code3

InitExit ==
    /\ progress = NewProgress
    /\ exit = NoExit
    /\ rerun = NoRerun
    /\ file = <<>>
    /\ dbLines = <<>>
    /\ dbMutants = <<>>
    /\ testsHash = "h1"
    /\ lookup = NoLookup
    /\ updates = 0
    /\ RunIdle
    /\ OrchIdle
    /\ LinesIdle
    /\ MutateIdle
    /\ LaterIdle

\* Progress.register(status)
Register ==
    /\ exit.pc = "running"
    /\ progress.progress < MaxRegistered
    /\ \E status \in {BAD_SURVIVED, BAD_TIMEOUT, OK_KILLED, OK_SUSPICIOUS, SKIPPED} :
          progress' =
              [(CASE status = BAD_SURVIVED -> [progress EXCEPT !.surviving_mutants = @ + 1]
                  [] status = BAD_TIMEOUT ->
                         [progress EXCEPT !.surviving_mutants_timeout = @ + 1]
                  [] status = OK_KILLED -> [progress EXCEPT !.killed_mutants = @ + 1]
                  [] status = OK_SUSPICIOUS -> [progress EXCEPT !.suspicious_mutants = @ + 1]
                  [] status = SKIPPED -> [progress EXCEPT !.skipped = @ + 1])
               EXCEPT !.progress = @ + 1]
    /\ UNCHANGED <<exit, notExitVars>>

\* a call of compute_exit_code(progress, exception, ci)
ComputeExitCode ==
    /\ exit.pc = "running"
    /\ \E exception \in {"None", "Exception"}, ci \in BOOLEAN :
          exit' = [pc |-> "exited", exception |-> exception, ci |-> ci,
                   code |-> compute_exit_code(progress, exception, ci)]
    /\ UNCHANGED <<progress, notExitVars>>

NextExit ==
    \/ Register
    \/ ComputeExitCode

SpecExit == InitExit /\ [][NextExit]_vars

\* C19: the exit code is the bit-OR of 1 for an exception, 2 for a survived
\* mutant, 4 for a timed out one and 8 for a suspicious one, whatever the
\* numbers of killed and skipped mutants; with ci it is 1 for an exception
\* and 0 otherwise.
C19_ExitCodeBits ==
    exit.pc = "exited" =>
        /\ exit.code \in 0..15
        /\ (exit.code % 2 = 1) <=> (exit.exception # "None")
        /\ ((exit.code \div 2) % 2 = 1) <=> (~exit.ci /\ progress.surviving_mutants > 0)
        /\ ((exit.code \div 4) % 2 = 1)
               <=> (~exit.ci /\ progress.surviving_mutants_timeout > 0)
        /\ ((exit.code \div 8) % 2 = 1) <=> (~exit.ci /\ progress.suspicious_mutants > 0)

\* an exception after a survived, a timed out and a killed mutant: 1 | 2 | 4
C19_Witness ==
    /\ exit = [pc |-> "exited", exception |-> "Exception", ci |-> FALSE, code |-> 7]
    /\ progress.surviving_mutants = 1
    /\ progress.surviving_mutants_timeout = 1
    /\ progress.killed_mutants = 1

(***************************************************************************)
(* Two runs over the same file, each with its set of mutation types: the   *)
(* steps of do_run for the file (update_line_numbers, add_mutations_by_file *)
(* and the lookup of queue_mutants), and the same steps again.             *)
(***************************************************************************)
\* [x.strip("\n") for x in f.readlines()]
FileLines(source) ==
    LET lines == split_lines(source)
    IN  IF lines[Len(lines)] = <<>> THEN SubSeq(lines, 1, Len(lines) - 1) ELSE lines

\* the files: up to MaxStatements statements, every line with its newline
TypeSources ==
    UNION {{get_code(Node("file_input", stmts)) : stmts \in [1..k -> SiteStatements]} :
              k \in 1..MaxStatements}

\* the Config of a run: --disable-mutation-types or --enable-mutation-types
TypeConfigs ==
    {ContextConfig(MutationTypes \ disabled, NoCoveredLines) :
        disabled \in {d \in SUBSET MutationTypes : Cardinality(d) <= MaxDisabledTypes}}

InitTypes ==
    /\ \E source \in TypeSources, cfg \in TypeConfigs :
          /\ mutation = [pc |-> "source", source |-> source, config |-> cfg,
                         mutation_ids |-> <<>>, sites |-> <<>>, advances |-> <<>>,
                         selected |-> 0, mutated_source |-> <<>>,
                         count |-> 0, raised |-> FALSE]
          /\ file = FileLines(source)
    /\ rerun = [NoRerun EXCEPT !.pc = "start"]
    /\ dbLines = <<>>
    /\ dbMutants = <<>>
    /\ sourcefile = [hash |-> NoFileHash]
    /\ testsHash = "h1"
    /\ lookup = NoLookup
    /\ updates = 0
    /\ edit = NoEdit
    /\ progress = NewProgress
    /\ exit = NoExit
    /\ RunIdle
    /\ OrchIdle
    /\ LaterIdle

\* update_line_numbers(filename)
UpdateLineNumbersOfRun ==
    /\ rerun.pc = "start"
    /\ \E r \in {update_line_numbers(dbLines, dbMutants, sourcefile.hash, file)} :
          /\ dbLines' = r.lines
          /\ dbMutants' = r.mutants
          /\ sourcefile' = [sourcefile EXCEPT !.hash = r.hash]
    /\ rerun' = [rerun EXCEPT !.pc = "synced"]
    /\ UNCHANGED <<file, testsHash, lookup, updates, edit, mutation, progress, exit>>
    /\ UNCHANGED <<runVars, orchVars, laterVars>>

\* add_mutations_by_file(mutations_by_file, filename, dict_synonyms, config):
\* list_mutations with the Config of the run, then register_mutants, which
\* leaves out a file whose hash is the stored one
AddMutationsByFile ==
    /\ rerun.pc = "synced"
    /\ \E context \in {list_mutations(NewContext(mutation.source, ALL, mutation.config))} :
          /\ mutation' = [mutation EXCEPT
                              !.pc = "listed",
                              !.mutation_ids = context.performed_mutation_ids,
                              !.sites = context.sites,
                              !.advances = context.advances,
                              !.mutated_source = context.mutated_source,
                              !.count = Len(context.performed_mutation_ids)]
          /\ IF hash_of(file) = sourcefile.hash
             THEN UNCHANGED <<dbMutants, sourcefile>>
             ELSE /\ CanRegisterMutants(dbLines, context.performed_mutation_ids)
                  /\ dbMutants' = register_mutants(dbLines, dbMutants,
                                                   context.performed_mutation_ids)
                  /\ sourcefile' = [sourcefile EXCEPT !.hash = hash_of(file)]
    /\ rerun' = [rerun EXCEPT !.pc = "registered"]
    /\ UNCHANGED <<file, dbLines, testsHash, lookup, updates, edit, progress, exit>>
    /\ UNCHANGED <<runVars, orchVars, laterVars>>

\* _get_mutants_by_testing_status: get_cached_mutation_statuses(filename,
\* mutations, config.hash_of_tests) for the mutations listed
LookupOfRun ==
    /\ rerun.pc = "registered"
    /\ \E r \in {get_cached_mutation_statuses(dbLines, dbMutants, mutation.mutation_ids,
                                               testsHash)} :
          /\ dbMutants' = r.mutants
          /\ lookup' = [op |-> "get_cached_mutation_statuses", hash |-> testsHash,
                        raised |-> r.raised, result |-> r.result]
    /\ rerun' = [rerun EXCEPT !.pc = "queued"]
    /\ UNCHANGED <<file, dbLines, testsHash, updates, sourcefile, edit, mutation,
                   progress, exit>>
    /\ UNCHANGED <<runVars, orchVars, laterVars>>

\* the command is run again, with another set of mutation types
RunAgain ==
    /\ rerun.pc = "queued"
    /\ ~rerun.again
    /\ \E cfg \in TypeConfigs \ {mutation.config} :
          mutation' = [mutation EXCEPT !.pc = "source", !.config = cfg,
                                       !.mutation_ids = <<>>, !.sites = <<>>,
                                       !.advances = <<>>, !.mutated_source = <<>>,
                                       !.count = 0]
    /\ rerun' = [pc |-> "start", again |-> TRUE, mutation_ids |-> mutation.mutation_ids,
                 sites |-> mutation.sites, config |-> mutation.config,
                 lines |-> dbLines, mutants |-> dbMutants]
    /\ lookup' = NoLookup
    /\ UNCHANGED <<file, dbLines, dbMutants, testsHash, updates, sourcefile, edit,
                   progress, exit>>
    /\ UNCHANGED <<runVars, orchVars, laterVars>>

NextTypes ==
    \/ UpdateLineNumbersOfRun
    \/ AddMutationsByFile
    \/ LookupOfRun
    \/ RunAgain

SpecTypes == InitTypes /\ [][NextTypes]_vars

\* the pk of the Mutant row of an id
PkOf(lines, mutants, mutation_id) ==
    UNION {get_mutant(mutants, linePk, mutation_id.index) :
              linePk \in LineGet(lines, mutation_id.line, mutation_id.line_number)}

\* the edit an id denotes: what mutate_from_context gives for it
EditOf(mutation_id, cfg) ==
    The({[mutated_source |-> r.mutated_source, count |-> r.count] :
            r \in {mutate_from_context(NewContext(mutation.source, mutation_id, cfg))}})

\* C20: a second run on the same source with another set of mutation types
\* only adds mutants to the cache: a mutant of the cache of the first run
\* keeps its primary key, its line and its index, the ids of the first run
\* find the same rows, and denote the same edit.
C20_RerunOnlyAddsMutants ==
    rerun.again =>
        /\ dbLines = rerun.lines
        /\ \A pk \in DOMAIN rerun.mutants :
               /\ pk \in DOMAIN dbMutants
               /\ dbMutants[pk].line = rerun.mutants[pk].line
               /\ dbMutants[pk].index = rerun.mutants[pk].index
        /\ \A i \in DOMAIN rerun.mutation_ids :
               \A mutation_id \in {rerun.mutation_ids[i]} :
                   /\ Cardinality(PkOf(rerun.lines, rerun.mutants, mutation_id)) = 1
                   /\ PkOf(dbLines, dbMutants, mutation_id)
                          = PkOf(rerun.lines, rerun.mutants, mutation_id)
                   /\ rerun.pc = "queued" =>
                      \A first \in {EditOf(mutation_id, rerun.config)} :
                          /\ first.count = 1
                          /\ first.mutated_source # mutation.source
                          /\ EditOf(mutation_id, NoContextConfig) = first
                          /\ \A j \in DOMAIN mutation.mutation_ids :
                                 mutation.mutation_ids[j] = mutation_id =>
                                     /\ mutation.sites[j] = rerun.sites[i]
                                     /\ EditOf(mutation_id, mutation.config) = first

\* "a = b + c" first without the operator mutations, then with all types:
\* the Mutant of the plus sign is added after the one of the assignment
C20_Witness ==
    /\ rerun.pc = "queued"
    /\ rerun.again
    /\ mutation.source = <<"a", " ", "=", " ", "b", " ", "+", " ", "c", "\n">>
    /\ rerun.config = ContextConfig(MutationTypes \ {"operator"}, NoCoveredLines)
    /\ mutation.config = ContextConfig(MutationTypes, NoCoveredLines)
    /\ rerun.mutation_ids
           = <<RelativeMutationID(<<"a", " ", "=", " ", "b", " ", "+", " ", "c">>, 1, 0)>>
    /\ Len(mutation.mutation_ids) = 2
    /\ DOMAIN rerun.mutants = {1}
    /\ DOMAIN dbMutants = {1, 2}
    /\ dbMutants[1].index = 1
    /\ dbMutants[2].index = 0

(***************************************************************************)
(* The first cache access of a process: init_db binds the database and     *)
(* compares the stored schema version with the current one before the      *)
(* decorated function runs.                                                *)
(***************************************************************************)
MaxVersion == 5
MaxProcesses == 2
MaxCalls == 2

current_db_version == 4

Digits == <<"0", "1", "2", "3", "4", "5", "6", "7", "8", "9">>

\* str(n) of a natural number
RECURSIVE str(_)
str(n) == IF n < 10 THEN Digits[n + 1] ELSE str(n \div 10) \o Digits[(n % 10) + 1]

\* int(s) of the decimal text of a natural number
int(s) == CHOOSE n \in 0..(MaxVersion + current_db_version) : str(n) = s

\* the values the "version" row can hold: written by this or by another
\* release of the program with str(current_db_version), or not written
StoredVersions == {NoRow} \cup {str(v) : v \in 1..MaxVersion}

BaselineTimes == {"2.0"}

\* the tables a process finds: [misc, lines, mutants, hash]
Tables(misc, lines, mutants, hash) ==
    [misc |-> misc, lines |-> lines, mutants |-> mutants, hash |-> hash]

\* db.drop_all_tables(with_all_data=True), db.generate_mapping(create_tables=True)
EmptyTables == Tables(NoMiscData, <<>>, <<>>, NoFileHash)

\* init_db that sets the version and keeps the tables
InitDbWithoutClearing(provider, t) ==
    [provider |-> "sqlite", printed |-> FALSE,
     tables |-> IF provider # "None" THEN t
                ELSE [t EXCEPT !.misc.version = str(current_db_version)]]

\* init_db(f), the part of the wrapper before f(*args, **kwargs):
\* [provider, printed, tables]
init_db(provider, t) ==
    IF provider # "None"
    THEN [provider |-> provider, printed |-> FALSE, tables |-> t]
    ELSE LET existing_db_version == IF t.misc.version = NoRow THEN 1
                                    ELSE int(t.misc.version)
             cleared == existing_db_version # current_db_version
             kept == IF cleared THEN EmptyTables ELSE t
         IN  [provider |-> "sqlite", printed |-> cleared,
              tables |-> [kept EXCEPT !.misc.version = str(current_db_version)]]

\* the tables of the database file
StoredTables == Tables(schema.misc, dbLines, dbMutants, sourcefile.hash)

\* a cache file left by an earlier run of this or of another release: the
\* lines of the file and their mutants, with the baseline time or without
InitSchema ==
    /\ file \in FilesUpTo(MaxFileLines)
    /\ \E indexed \in BOOLEAN, version \in StoredVersions,
          time \in BaselineTimes \cup {NoRow} :
          /\ dbLines = IF indexed THEN FirstIndexing(file) ELSE <<>>
          /\ dbMutants = IF indexed
                         THEN register_mutants(dbLines, <<>>, MutationIdsOf(file))
                         ELSE <<>>
          /\ sourcefile = [hash |-> IF indexed THEN hash_of(file) ELSE NoFileHash]
          /\ \E misc \in {[version |-> version,
                             baseline_time_elapsed |-> time,
                             hash_of_tests |-> IF time = NoRow THEN NoRow ELSE "h1"]} :
                schema = [NoSchema EXCEPT
                             !.misc = misc,
                             !.processes = 1,
                             !.initial = Tables(misc, dbLines, dbMutants,
                                                sourcefile.hash)]
    /\ testsHash = "h1"
    /\ lookup = NoLookup
    /\ updates = 0
    /\ edit = NoEdit
    /\ MutateIdle
    /\ progress = NewProgress
    /\ exit = NoExit
    /\ listing = NoListing
    /\ dispatch = NoDispatch
    /\ rerun = NoRerun
    /\ RunIdle
    /\ OrchIdle

\* what a decorated call leaves in the variables: the tables after the
\* function, and in schema the call, the tables the function found and
\* what it returned or raised
Called(op, d, after, raised, result) ==
    /\ schema.calls < MaxCalls
    /\ dbLines' = after.lines
    /\ dbMutants' = after.mutants
    /\ sourcefile' = [sourcefile EXCEPT !.hash = after.hash]
    /\ schema' = [schema EXCEPT !.provider = d.provider,
                                !.misc = after.misc,
                                !.printed = d.printed,
                                !.calls = @ + 1,
                                !.op = op,
                                !.raised = raised,
                                !.result = result,
                                !.entered = d.tables]
    /\ UNCHANGED <<file, testsHash, lookup, updates, edit, mutation, progress, exit, rerun>>
    /\ UNCHANGED <<runVars, orchVars, listing, dispatch>>

\* cached_test_time(): the stored baseline time, or None
InitDbCachedTestTime ==
    \E d \in {init_db(schema.provider, StoredTables)} :
        Called("cached_test_time", d, d.tables, "None",
               <<d.tables.misc.baseline_time_elapsed>>)

\* set_cached_test_time(baseline_time_elapsed, current_hash_of_tests)
InitDbSetCachedTestTime ==
    \E d \in {init_db(schema.provider, StoredTables)}, time \in BaselineTimes :
        Called("set_cached_test_time", d,
               [d.tables EXCEPT !.misc.baseline_time_elapsed = time,
                                !.misc.hash_of_tests = testsHash],
               "None", <<>>)

\* update_line_numbers(filename)
InitDbUpdateLineNumbers ==
    \E d \in {init_db(schema.provider, StoredTables)} :
        \E r \in {update_line_numbers(d.tables.lines, d.tables.mutants,
                                      d.tables.hash, file)} :
            Called("update_line_numbers", d,
                   Tables(d.tables.misc, r.lines, r.mutants, r.hash), "None", <<>>)

\* filename_and_mutation_id_from_pk(pk): ValueError when get_mutant(id=pk)
\* finds no row
InitDbFilenameAndMutationIdFromPk ==
    \E d \in {init_db(schema.provider, StoredTables)},
       pk \in 1..(SitesOnLine("B") * MaxFileLines) :
        LET found == pk \in DOMAIN d.tables.mutants
        IN  Called("filename_and_mutation_id_from_pk", d, d.tables,
                   IF found THEN "None" ELSE "ValueError",
                   IF found
                   THEN <<RelativeMutationID(
                              d.tables.lines[d.tables.mutants[pk].line].line,
                              d.tables.mutants[pk].index,
                              d.tables.lines[d.tables.mutants[pk].line].line_number)>>
                   ELSE <<>>)

\* the command ends and the next one starts in a new process: db is the
\* unbound Database() of the module again
NewProcess ==
    /\ schema.provider # "None"
    /\ schema.processes < MaxProcesses
    /\ schema' = [schema EXCEPT !.provider = "None", !.processes = @ + 1,
                                !.calls = 0, !.printed = FALSE, !.op = "none",
                                !.raised = "None", !.result = <<>>,
                                !.entered = <<>>,
                                !.initial = StoredTables]
    /\ UNCHANGED <<cacheVars, lineVars, mutation, progress, exit, rerun>>
    /\ UNCHANGED <<runVars, orchVars, listing, dispatch>>

NextSchema ==
    \/ InitDbCachedTestTime
    \/ InitDbSetCachedTestTime
    \/ InitDbUpdateLineNumbers
    \/ InitDbFilenameAndMutationIdFromPk
    \/ NewProcess

SpecSchema == InitSchema /\ [][NextSchema]_vars

\* the first cache access of the process has been made
FirstAccessMade == schema.provider # "None" /\ schema.calls = 1

\* the version the process found differs from the current one or is absent
StaleVersion == schema.initial.misc.version # str(current_db_version)

\* what the first access of a process does to the stored tables before its
\* function runs, and the version it leaves
SchemaChecked ==
    /\ schema.misc.version = str(current_db_version)
    /\ schema.printed = StaleVersion
    /\ IF StaleVersion
       THEN schema.entered = [EmptyTables EXCEPT !.misc.version = str(current_db_version)]
       ELSE schema.entered = schema.initial

\* the function of the first access ran as on an empty cache
RanOnEmptyCache ==
    /\ schema.op = "cached_test_time" =>
          /\ schema.result = <<NoRow>>
          /\ dbLines = <<>> /\ dbMutants = <<>>
    /\ schema.op = "set_cached_test_time" =>
          /\ schema.misc.baseline_time_elapsed \in BaselineTimes
          /\ dbLines = <<>> /\ dbMutants = <<>>
    /\ schema.op = "update_line_numbers" =>
          /\ dbLines = FirstIndexing(file)
          /\ dbMutants = <<>>
    /\ schema.op = "filename_and_mutation_id_from_pk" =>
          /\ schema.raised = "ValueError"
          /\ dbLines = <<>> /\ dbMutants = <<>>

C22_PerformedMutationChangesSource ==
    mutation.pc \in {"listed", "mutated"} /\ mutation.count > 0 =>
        \/ mutation.mutated_source # mutation.source
        \/ mutation.raised

\* one mutation was performed on a source that does not end with a newline,
\* and the text returned does not end with a newline either
C22_Witness ==
    /\ mutation.pc = "mutated"
    /\ mutation.count = 1
    /\ ~mutation.raised
    /\ mutation.source[Len(mutation.source)] # "\n"
    /\ mutation.mutated_source[Len(mutation.mutated_source)] # "\n"
    /\ Len(split_lines(mutation.source)) = MaxStatements

(***************************************************************************)
(* The forced run of one mutant: "run <pk>" puts the one mutation id of    *)
(* the pk in mutations_by_file, and config.total is 1.                     *)
(***************************************************************************)
\* parse_run_argument with a pk: mutations_by_file[filename] = [mutation_id]
ForcedMutations(f) == {<<MutationIdsOf(f)[k]>> : k \in DOMAIN MutationIdsOf(f)}

InitForced ==
    /\ file \in OrchFiles
    /\ dbLines = FirstIndexing(file)
    /\ testsHash = "h1"
    /\ dbMutants \in StoredRunsOf(register_mutants(dbLines, <<>>, MutationIdsOf(file)),
                                  testsHash, RerunStatuses)
    /\ lookup = NoLookup
    /\ updates = 0
    /\ RunIdle
    /\ LinesIdle
    /\ MutateIdle
    /\ ExitIdle
    /\ mutants_queue = <<>>
    /\ results_queue = <<>>
    /\ \E mutations \in ForcedMutations(file) :
          producer = [pc |-> "lookup", mutations |-> mutations, k |-> 1,
                      cached_mutation_statuses |-> <<>>, single_statuses |-> <<>>,
                      ends |-> 0]
    /\ workers = <<NewWorker>>
    /\ \E cycle_process_after \in 1..MaxCycle :
          coordinator = [pc |-> "get", t |-> 1, cycle_process_after |-> cycle_process_after]
    /\ tally = [by_producer |-> [id \in Range(MutationIdsOf(file)) |-> <<>>],
                dispatched |-> ZeroOf(Range(MutationIdsOf(file))),
                tested |-> ZeroOf(Range(MutationIdsOf(file))),
                registered |-> ZeroOf(Range(MutationIdsOf(file))),
                updated |-> ZeroOf(Range(MutationIdsOf(file)))]

SpecForced == InitForced /\ [][NextOrch]_vars

\* the mutation id of the forced run
ForcedMutant == producer.mutations[1]

\* C23: when a run targets a single mutant (config.total = 1), that mutant
\* goes through the full test cycle, the file mutated, the tests run and a
\* fresh status stored in the cache, even if its cached status is resolved
C23_ForcedMutantIsTested ==
    coordinator.pc = "returned" =>
        /\ tally.dispatched[ForcedMutant] = 1
        /\ tally.tested[ForcedMutant] = 1
        /\ tally.updated[ForcedMutant] = 1

\* C23 for a mutant whose cached status is untested
C23_UntestedForcedMutantIsTested ==
    (coordinator.pc = "returned" /\ producer.single_statuses[ForcedMutant] = UNTESTED) =>
        /\ tally.dispatched[ForcedMutant] = 1
        /\ tally.tested[ForcedMutant] = 1
        /\ tally.updated[ForcedMutant] = 1

\* the forced run of a mutant that survived under the same tests is over and
\* no test was run
C23_CachedForcedMutantWitness ==
    /\ coordinator.pc = "returned"
    /\ producer.single_statuses[ForcedMutant] = BAD_SURVIVED
    /\ tally.by_producer[ForcedMutant] = <<BAD_SURVIVED>>
    /\ tally.tested[ForcedMutant] = 0

(***************************************************************************)
(* The pipeline with a worker process that can die: a check_mutants        *)
(* process that is killed while run_mutation is testing a mutant runs      *)
(* neither the rest of its loop nor its finally block.                     *)
(***************************************************************************)
\* the process is killed during run_mutation
CheckMutantsKilled(w) ==
    /\ workers[w].pc = "run"
    /\ workers' = [workers EXCEPT ![w].pc = "killed"]
    /\ UNCHANGED <<mutants_queue, results_queue, producer, coordinator, tally>>
    /\ UNCHANGED <<cacheVars, notOrchVars>>

NextCrash ==
    \/ NextOrch
    \/ \E w \in DOMAIN workers : CheckMutantsKilled(w)

\* the steps of the queue_mutants thread, of the check_mutants processes
\* and of the loop of run_mutation_tests
ProducerSteps == QueueMutantsLookup \/ QueueMutantsNext \/ QueueMutantsEnd

WorkerSteps ==
    \E w \in DOMAIN workers :
        \/ CheckMutantsGet(w)
        \/ CheckMutantsFeedback(w)
        \/ CheckMutantsRun(w)
        \/ CheckMutantsPutStatus(w)
        \/ CheckMutantsPutCycle(w)
        \/ CheckMutantsFinally(w)

CoordinatorSteps ==
    \/ CoordinatorStatus
    \/ CoordinatorProgress
    \/ CoordinatorCycle
    \/ CoordinatorEnd
    \/ CoordinatorJoin

\* the thread, the live processes and the main loop are scheduled while they
\* can take a step; nothing says that a process is ever killed
SpecCrash ==
    /\ InitOrch
    /\ [][NextCrash]_vars
    /\ WF_vars(ProducerSteps)
    /\ WF_vars(WorkerSteps)
    /\ WF_vars(CoordinatorSteps)

SomeWorkerKilled == \E w \in DOMAIN workers : workers[w].pc = "killed"

\* C24: if a worker process terminates abnormally while testing a mutant,
\* without an "end" or a "cycle" message on the results queue, the
\* coordinator does not wait forever on the results queue:
\* run_mutation_tests eventually returns
C24_ReturnsAfterWorkerDeath ==
    <>(coordinator.pc = "returned")

\* run_mutation_tests returns in every run in which no worker is killed
C24_ReturnsUnlessWorkerDeath ==
    <>(coordinator.pc = "returned" \/ SomeWorkerKilled)

\* the coordinator is in results_queue.get(), the queue is empty, the
\* producer is through and the last worker it created is dead
C24_WaitsForeverWitness ==
    /\ coordinator.pc = "get"
    /\ results_queue = <<>>
    /\ producer.pc = "done"
    /\ workers[Len(workers)].pc = "killed"
    /\ \A w \in DOMAIN workers : workers[w].pc \in {"killed", "exited"}

(***************************************************************************)
(* Claims about the workers of one run.                                    *)
(***************************************************************************)
\* the workers that are in run_mutation: the file can be mutated
TestingWorkers == {w \in DOMAIN workers : workers[w].pc = "run"}

\* the workers that take or will take an item from the mutants queue
ConsumingWorkers == {w \in DOMAIN workers : workers[w].pc \in {"get", "run", "put"}}

\* C25: with one worker at a time, at every instant at most one worker
\* process has the source file mutated and not yet restored: a replacement
\* worker is started only after the cycling worker has left run_mutation,
\* which restores the file, and has reported its last status, and no two
\* live workers consume from the mutants queue at the same time
C25_OneWorkerAtATime ==
    /\ Cardinality(TestingWorkers) <= 1
    /\ Cardinality(ConsumingWorkers) <= 1
    /\ \A w \in 2..Len(workers) :
          /\ workers[w - 1].pc \in {"finally", "exited"}
          /\ workers[w - 1].did_cycle
          /\ workers[w - 1].count = coordinator.cycle_process_after
          /\ tally.registered[workers[w - 1].mutation_id] = 1

\* the replacement worker is testing a mutant while the worker that cycled
\* has not exited yet
C25_Witness ==
    /\ Len(workers) >= 2
    /\ workers[Len(workers)].pc = "run"
    /\ workers[Len(workers) - 1].pc = "finally"

(***************************************************************************)
(* run_mutation with a restoration that can fail: the tests of the project *)
(* can remove the backup, and move() can fail on a backup that is there.   *)
(***************************************************************************)
\* the test run removes the .bak file
BackupRemoved ==
    /\ run.pc = "reading"
    /\ proc.child = "running"
    /\ disk.bak # Absent
    /\ disk' = [disk EXCEPT !.bak = Absent]
    /\ UNCHANGED <<config, run, proc, worker>>
    /\ UNCHANGED cacheVars
    /\ UNCHANGED notRunVars

\* a finally block that keeps the result of the try block when move() raises
FinallyMoveSwallowed ==
    /\ run.pc = "finally"
    /\ run' = [run EXCEPT !.pc = "returned", !.effects = @ \cup {"move raised"}]
    /\ proc' = NoProc
    /\ UNCHANGED <<disk, config, worker>>
    /\ UNCHANGED cacheVars
    /\ UNCHANGED notRunVars

\* lines 98-100: move() raises, for a backup that is missing
\* (FileNotFoundError) or for one that cannot be moved (PermissionError);
\* the exception replaces what the try block returned or raised, and the
\* rest of the finally block is not run
FinallyMoveRaises ==
    /\ run.pc = "finally"
    /\ run' = [run EXCEPT !.pc = "returned",
                          !.effects = @ \cup {"move raised"},
                          !.ret = Raise(IF disk.bak = Absent THEN "FileNotFoundError"
                                        ELSE "PermissionError")]
    /\ proc' = NoProc
    /\ UNCHANGED <<disk, config, worker>>
    /\ UNCHANGED cacheVars
    /\ UNCHANGED notRunVars

NextRestore ==
    \/ NextRun
    \/ BackupRemoved
    \/ FinallyMoveRaises

\* the runs under the restoration specification: no cached result is
\* reused and the hook, when there is one, does not skip
RestoreConfigs ==
    {c \in HookConfigs : ~c.rerun_all /\ c.dynamic_pre_mutation \in {"none", "test_command"}}

InitRestore == InitRunWith(RunSources, RestoreConfigs)

SpecRestore == InitRestore /\ [][NextRestore]_vars

\* the statuses the worker has put on the results queue for a mutant
ReportedFor(mutation_id) ==
    {k \in DOMAIN worker.results :
        worker.results[k].tag = "status" /\ worker.results[k].mutation_id = mutation_id}

\* C26: if restoring the original file fails, because the backup is missing
\* or because the move fails, the error propagates out of run_mutation
\* instead of becoming a status of the mutant, and no status of that mutant
\* is reported to the coordinator, which is the one that writes the cache
C26_RestoreFailurePropagates ==
    "move raised" \in run.effects =>
        /\ run.pc \in {"returned", "idle"}
        /\ run.ret.kind = "raise"
        /\ run.ret.value \in {"FileNotFoundError", "PermissionError"}
        /\ "post_mutation" \notin run.effects
        /\ ReportedFor(run.mutation_id) = {}
        /\ run.pc = "idle" =>
              /\ worker.state = "crashed"
              /\ worker.results[Len(worker.results)].tag = "end"

\* the tests have killed the mutant and removed the backup: the call raised
\* and the worker ended without a status for the mutant
C26_Witness ==
    /\ "move raised" \in run.effects
    /\ run.pc = "idle"
    /\ run.outcomes # <<>>
    /\ run.ret = Raise("FileNotFoundError")
    /\ disk.bak = Absent
    /\ worker.state = "crashed"
    /\ ReportedFor(run.mutation_id) = {}

(***************************************************************************)
(* Two enumerations of one source: one with a new Context as              *)
(* add_mutations_by_file builds it, one with a Context whose running index *)
(* has another initial value.                                              *)
(***************************************************************************)
MaxInitialIndex == 1   \* the largest initial value of Context.index

\* Context(source=source, mutation_id=mutation_id, config=config, index=index)
ContextWithIndex(source, mutation_id, cfg, index) ==
    [NewContext(source, mutation_id, cfg) EXCEPT !.index = index]

InitListing ==
    /\ \E source \in SiteSources, cfg \in SiteConfigs, index \in 0..MaxInitialIndex :
          listing = [NoListing EXCEPT !.pc = "source", !.source = source,
                                      !.config = cfg, !.index = index]
    /\ file = <<>>
    /\ dbLines = <<>>
    /\ dbMutants = <<>>
    /\ testsHash = "h1"
    /\ lookup = NoLookup
    /\ updates = 0
    /\ schema = NoSchema
    /\ dispatch = NoDispatch
    /\ MutateIdle
    /\ RunIdle
    /\ OrchIdle
    /\ LinesIdle
    /\ progress = NewProgress
    /\ exit = NoExit
    /\ rerun = NoRerun

\* list_mutations(Context(source=source, config=config))
ListFresh ==
    /\ listing.pc \in {"source", "other"}
    /\ \E context \in {list_mutations(NewContext(listing.source, ALL, listing.config))} :
          listing' = [listing EXCEPT
                         !.pc = IF @ = "source" THEN "fresh" ELSE "both",
                         !.fresh = context.performed_mutation_ids]
    /\ UNCHANGED <<cacheVars, runVars, orchVars, lineVars, mutation, exitVars, schema, dispatch>>

\* list_mutations(Context(source=source, config=config, index=index))
ListWithIndex ==
    /\ listing.pc \in {"source", "fresh"}
    /\ \E context \in {list_mutations(ContextWithIndex(listing.source, ALL,
                                                       listing.config, listing.index))} :
          listing' = [listing EXCEPT
                         !.pc = IF @ = "source" THEN "other" ELSE "both",
                         !.other = context.performed_mutation_ids]
    /\ UNCHANGED <<cacheVars, runVars, orchVars, lineVars, mutation, exitVars, schema, dispatch>>

NextListing ==
    \/ ListFresh
    \/ ListWithIndex

SpecListing == InitListing /\ [][NextListing]_vars

\* C27: two enumerations of the same source text with the same
\* configuration return the same MutationIDs in the same order, whatever
\* the initial value of the running index of the Context
C27_SameIdsWhateverIndex ==
    listing.pc = "both" => listing.other = listing.fresh

\* the enumerations agree when the index starts at the same value, and in
\* every case on the ids of the lines after the first
C27_SameIdsAfterFirstLine ==
    listing.pc = "both" =>
        /\ Len(listing.other) = Len(listing.fresh)
        /\ \A i \in DOMAIN listing.fresh :
              /\ listing.other[i].line = listing.fresh[i].line
              /\ listing.other[i].line_number = listing.fresh[i].line_number
              /\ listing.other[i].index = listing.fresh[i].index
                     + (IF listing.fresh[i].line_number = 0 THEN listing.index ELSE 0)

\* "a = b + c" listed from index 1: its ids are numbered 1 and 2
C27_ShiftedIdsWitness ==
    /\ listing.pc = "both"
    /\ listing.source = <<"a", " ", "=", " ", "b", " ", "+", " ", "c">>
    /\ listing.index = 1
    /\ Len(listing.fresh) = 2
    /\ listing.fresh[1].index = 0
    /\ listing.other[1].index = 1

(***************************************************************************)
(* The contexts of the dispatched mutants: the ids of a source are listed, *)
(* the producer builds a Context for every untested one with its running   *)
(* index, and the worker writes what mutate_from_context makes of that     *)
(* Context.                                                                *)
(***************************************************************************)
InitDispatch ==
    /\ \E source \in SiteSources :
          dispatch = [NoDispatch EXCEPT !.pc = "source", !.source = source]
    /\ file = <<>>
    /\ dbLines = <<>>
    /\ dbMutants = <<>>
    /\ testsHash = "h1"
    /\ lookup = NoLookup
    /\ updates = 0
    /\ schema = NoSchema
    /\ listing = NoListing
    /\ MutateIdle
    /\ RunIdle
    /\ OrchIdle
    /\ LinesIdle
    /\ progress = NewProgress
    /\ exit = NoExit
    /\ rerun = NoRerun

\* add_mutations_by_file: the ids of the file; some of them have a status
\* in the cache already
DispatchListMutations ==
    /\ dispatch.pc = "source"
    /\ \E context \in {list_mutations(NewContext(dispatch.source, ALL, NoContextConfig))} :
          \E tested \in SUBSET DOMAIN context.performed_mutation_ids :
              dispatch' = [dispatch EXCEPT
                              !.pc = "loop",
                              !.mutation_ids = context.performed_mutation_ids,
                              !.tested = tested]
    /\ UNCHANGED <<cacheVars, runVars, orchVars, lineVars, mutation, exitVars, schema, listing>>

\* _get_mutants_by_testing_status, lines 73-92, for the next id: a tested
\* one is passed over, an untested one gets a Context with the running index
GetMutantsByTestingStatus ==
    /\ dispatch.pc = "loop"
    /\ dispatch.k <= Len(dispatch.mutation_ids)
    /\ IF dispatch.k \in dispatch.tested
       THEN dispatch' = [dispatch EXCEPT !.k = @ + 1]
       ELSE dispatch' = [dispatch EXCEPT
                !.k = @ + 1,
                !.index = @ + 1,
                !.queue = Append(@, ContextWithIndex(dispatch.source,
                                                     dispatch.mutation_ids[dispatch.k],
                                                     NoContextConfig, dispatch.index))]
    /\ UNCHANGED <<cacheVars, runVars, orchVars, lineVars, mutation, exitVars, schema, listing>>

\* mutate_file, lines 124-130, with the context of the next item of the
\* queue: what is written to the file
MutateFileOfContext ==
    /\ dispatch.pc = "loop"
    /\ dispatch.queue # <<>>
    /\ \E r \in {mutate_from_context(Head(dispatch.queue))} :
          dispatch' = [dispatch EXCEPT
                          !.queue = Tail(@),
                          !.written = Append(@,
                              [mutation_id |-> Head(dispatch.queue).mutation_id,
                               index |-> Head(dispatch.queue).index,
                               mutated |-> r.mutated_source,
                               count |-> r.count])]
    /\ UNCHANGED <<cacheVars, runVars, orchVars, lineVars, mutation, exitVars, schema, listing>>

NextDispatch ==
    \/ DispatchListMutations
    \/ GetMutantsByTestingStatus
    \/ MutateFileOfContext

SpecDispatch == InitDispatch /\ [][NextDispatch]_vars

\* the edit of an id: what mutate_from_context writes for it from a new
\* Context, and that it is one mutation
WroteEditOfId(w) ==
    /\ w.count = 1
    /\ w.mutated = mutate_from_context(NewContext(dispatch.source, w.mutation_id,
                                                  NoContextConfig)).mutated_source

\* C28: for every dispatched mutant the worker writes exactly the edit of
\* its MutationID, one mutation, whatever the running index the producer
\* passed into its Context and whatever its line, the first line included
C28_WrittenEditIsEditOfId ==
    \A i \in DOMAIN dispatch.written : WroteEditOfId(dispatch.written[i])

\* the same for the mutants of the lines after the first and for the mutant
\* dispatched first
C28_EditOfIdAfterFirstLine ==
    \A i \in DOMAIN dispatch.written :
        (dispatch.written[i].mutation_id.line_number > 0 \/ dispatch.written[i].index = 0)
            => WroteEditOfId(dispatch.written[i])

\* the second mutant of "a += 1", dispatched with index 1: the worker writes
\* the edit of the first one
C28_OtherEditWitness ==
    /\ dispatch.source = <<"a", " ", "+=", " ", "1", "\n">>
    /\ Len(dispatch.written) = 2
    /\ dispatch.written[2].index = 1
    /\ dispatch.written[2].mutation_id.index = 1
    /\ dispatch.written[2].count = 1
    /\ dispatch.written[2].mutated = dispatch.written[1].mutated
    /\ ~WroteEditOfId(dispatch.written[2])

(***************************************************************************)
(* The batch lookup against the lookup of one mutant.                      *)
(***************************************************************************)
\* what cached_mutation_status returns for the id alone, on the tables as
\* the batch lookup left them
StatusOfIdAlone(mutation_id) ==
    cached_mutation_status(dbLines, dbMutants, mutation_id, lookup.hash).status

\* C29: for every list of ids of a file, ids on two lines of identical text
\* included, the status get_cached_mutation_statuses returns for each id is
\* the one cached_mutation_status returns for that id alone: the status of
\* the Mutant of the Line with the id's text and the id's line number
C29_BatchLookupAsSingleLookup ==
    (lookup.op = "get_cached_mutation_statuses" /\ ~lookup.raised) =>
        \A mutation_id \in DOMAIN lookup.result :
            lookup.result[mutation_id] = StatusOfIdAlone(mutation_id)

\* the same for a file without two lines of the same text
C29_BatchLookupDistinctLines ==
    (\A i, j \in DOMAIN file : file[i] = file[j] => i = j)
        => C29_BatchLookupAsSingleLookup

\* two lines "A": the batch lookup answers the id of line 1 with the status
\* of the Mutant of line 0
C29_AliasedLineWitness ==
    /\ file = <<"A", "A">>
    /\ lookup.op = "get_cached_mutation_statuses"
    /\ ~lookup.raised
    /\ \E id0, id1 \in DOMAIN lookup.result :
          /\ id0.line_number = 0
          /\ id1.line_number = 1
          /\ id0.index = id1.index
          /\ StatusOfIdAlone(id1) # StatusOfIdAlone(id0)
          /\ lookup.result[id1] = StatusOfIdAlone(id0)

(***************************************************************************)
(* The state of the workers when run_mutation_tests returns.               *)
(***************************************************************************)
\* the worker has put its cycle message, or its end message
SentTerminalMessage(w) ==
    \/ workers[w].did_cycle
    \/ workers[w].pc = "exited"

\* the worker has left its loop: it takes no mutant any more
LeftLoop(w) == workers[w].pc \in {"finally", "exited"}

CycledWorkers == {w \in DOMAIN workers : workers[w].did_cycle}

\* what holds of the messages when run_mutation_tests returns: every worker
\* has sent its terminal message and left its loop, the results queue is
\* used up, and there is one replacement for every cycle message
StreamsClosed ==
    /\ \A w \in DOMAIN workers : SentTerminalMessage(w) /\ LeftLoop(w)
    /\ results_queue = <<>>
    /\ Len(workers) = 1 + Cardinality(CycledWorkers)
    /\ CycledWorkers = 1..(Len(workers) - 1)

\* C30: when run_mutation_tests returns, every worker it spawned has sent
\* its terminal message (cycle or end) and has stopped, no status message is
\* left on the results queue, and each cycle message has caused exactly one
\* replacement worker
C30_EveryWorkerStoppedAtReturn ==
    coordinator.pc = "returned" =>
        /\ StreamsClosed
        /\ \A w \in DOMAIN workers : workers[w].pc = "exited"

\* C30 with what the code waits for: every worker has sent its terminal
\* message and takes no mutant any more, and the worker that sent end, the
\* last one spawned, is over; a worker that cycled is not waited for
C30_StreamsClosedAtReturn ==
    coordinator.pc = "returned" =>
        /\ StreamsClosed
        /\ coordinator.t = Len(workers)
        /\ workers[coordinator.t].pc = "exited"
        /\ ~workers[coordinator.t].did_cycle

\* run_mutation_tests has returned after one replacement, and the worker
\* that cycled is still in its finally block
C30_Witness ==
    /\ coordinator.pc = "returned"
    /\ Len(workers) = 2
    /\ workers[1].did_cycle
    /\ workers[1].pc = "finally"
    /\ workers[2].pc = "exited"
    /\ workers[2].count > 0

(***************************************************************************)
(* The pipeline with exceptions: run_mutation can raise inside a worker,   *)
(* and the enumeration of the producer can raise part-way. Both leave      *)
(* through a finally block.                                                *)
(***************************************************************************)
RaisedInWorker == "<exception>"

\* a worker whose exception ends the process without the finally block
CheckMutantsRunRaisesNoFinally(w) ==
    /\ workers[w].pc = "run"
    /\ workers' = [workers EXCEPT ![w].pc = "exited", ![w].status = RaisedInWorker]
    /\ UNCHANGED <<mutants_queue, results_queue, producer, coordinator, tally>>
    /\ UNCHANGED <<cacheVars, notOrchVars>>

\* check_mutants, lines 109-113 and 121: run_mutation raises; the loop is
\* left for the finally block with no status put and count as it was
CheckMutantsRunRaises(w) ==
    /\ workers[w].pc = "run"
    /\ workers' = [workers EXCEPT ![w].pc = "finally", ![w].status = RaisedInWorker]
    /\ UNCHANGED <<mutants_queue, results_queue, producer, coordinator, tally>>
    /\ UNCHANGED <<cacheVars, notOrchVars>>

\* a producer whose exception ends the thread without the finally block
QueueMutantsRaisesNoFinally ==
    /\ producer.pc \in {"lookup", "loop"}
    /\ producer.k <= Len(producer.mutations)
    /\ producer' = [producer EXCEPT !.pc = "done", !.k = Len(producer.mutations) + 1]
    /\ UNCHANGED <<mutants_queue, results_queue, workers, coordinator, tally>>
    /\ UNCHANGED <<cacheVars, notOrchVars>>

\* queue_mutants, lines 41-48: _get_mutants_by_testing_status raises, in
\* the cache lookup or at a later mutant; the loop is left for the finally
\* block
QueueMutantsRaises ==
    /\ producer.pc \in {"lookup", "loop"}
    /\ producer.k <= Len(producer.mutations)
    /\ producer' = [producer EXCEPT !.pc = "loop", !.k = Len(producer.mutations) + 1]
    /\ UNCHANGED <<mutants_queue, results_queue, workers, coordinator, tally>>
    /\ UNCHANGED <<cacheVars, notOrchVars>>

NextRaise ==
    \/ NextOrch
    \/ \E w \in DOMAIN workers : CheckMutantsRunRaises(w)
    \/ QueueMutantsRaises

SpecRaise == InitOrch /\ [][NextRaise]_vars

\* the terminal messages of the results queue
TerminalMessages == {"cycle", "end"}

\* how many status messages a worker has put
RECURSIVE StatusesIn(_)
StatusesIn(sent) ==
    IF sent = <<>> THEN 0
    ELSE (IF Head(sent) = "status" THEN 1 ELSE 0) + StatusesIn(Tail(sent))

\* C31: each worker processes at most cycle_process_after mutants and puts
\* exactly one terminal message, as its last result message: cycle, and no
\* end, if and only if it stopped because its count reached the threshold,
\* otherwise end, on the end item of the dispatch queue and also when
\* run_mutation raised; the status of a processed mutant is put before the
\* terminal message
C31_OneTerminalMessageLast ==
    \A w \in DOMAIN workers :
        LET sent == workers[w].sent
        IN  /\ workers[w].count <= coordinator.cycle_process_after
            /\ StatusesIn(sent) = workers[w].count
            /\ \A i \in DOMAIN sent : sent[i] \in TerminalMessages => i = Len(sent)
            /\ workers[w].pc = "exited" =>
                  /\ sent # <<>>
                  /\ sent[Len(sent)] \in TerminalMessages
                  /\ sent[Len(sent)] = "cycle"
                         <=> workers[w].count = coordinator.cycle_process_after
                  /\ workers[w].status = RaisedInWorker => sent[Len(sent)] = "end"

\* a worker that has processed one mutant, below the threshold, and ended
\* on an exception of run_mutation: status, then end
C31_Witness ==
    \E w \in DOMAIN workers :
        /\ workers[w].pc = "exited"
        /\ workers[w].status = RaisedInWorker
        /\ workers[w].count = 1
        /\ coordinator.cycle_process_after = 2
        /\ workers[w].sent[Len(workers[w].sent)] = "end"
        /\ StatusesIn(workers[w].sent) = 1

(***************************************************************************)
(* The pipeline with exceptions under fair scheduling: the thread, the     *)
(* live processes and the main loop take their steps; nothing says that    *)
(* anything ever raises.                                                   *)
(***************************************************************************)
SpecRaiseFair ==
    /\ InitOrch
    /\ [][NextRaise]_vars
    /\ WF_vars(ProducerSteps)
    /\ WF_vars(WorkerSteps)
    /\ WF_vars(CoordinatorSteps)

\* the loop of queue_mutants is over: every mutant was handled, or the
\* enumeration raised
LoopOver == producer.pc \in {"loop", "done"} /\ producer.k > Len(producer.mutations)

MutantItems == {i \in DOMAIN mutants_queue : mutants_queue[i].command = "mutant"}
EndItems == {i \in DOMAIN mutants_queue : mutants_queue[i].command = "end"}

\* the end items come after every mutant item: none is put before the loop
\* is over, none lies before a mutant item in the queue, and a producer that
\* is through has put NUMBER_OF_PROCESSES_IN_PARALLELIZATION_MODE of them
EndsAfterMutants ==
    /\ producer.ends > 0 => LoopOver
    /\ \A i \in EndItems, j \in MutantItems : j < i
    /\ Cardinality(EndItems) <= producer.ends
    /\ producer.ends <= NUMBER_OF_PROCESSES_IN_PARALLELIZATION_MODE
    /\ producer.pc = "done" <=> producer.ends = NUMBER_OF_PROCESSES_IN_PARALLELIZATION_MODE

\* worker w is at mutants_queue.get() and no mutant will come
WaitsAfterLastMutant(w) ==
    /\ w \in DOMAIN workers
    /\ workers[w].pc = "get"
    /\ LoopOver
    /\ MutantItems = {}

ReadEnd(w) ==
    /\ w \in DOMAIN workers
    /\ workers[w].pc \in {"finally", "exited"}
    /\ ~workers[w].did_cycle
    /\ workers[w].status # RaisedInWorker

\* only the worker created last can be waiting at the queue
OnlyLastWorkerWaits ==
    \A w \in DOMAIN workers : workers[w].pc = "get" => w = Len(workers)

\* the worker, original or replacement, that reaches the queue after the
\* last mutant eventually reads an end item
WaitingWorkerReadsEnd ==
    WaitsAfterLastMutant(Len(workers)) ~> ReadEnd(Len(workers))

\* one end item for each worker that was created
OneEndPerWorker ==
    (producer.pc = "done" /\ coordinator.pc = "returned") => producer.ends = Len(workers)

SomeWorkerRaised == \E w \in DOMAIN workers : workers[w].status = RaisedInWorker

AllWorkersOver == \A w \in DOMAIN workers : workers[w].pc = "exited"

\* C33: for every set of mutants and every cycling threshold,
\* run_mutation_tests eventually returns under fair scheduling, also when
\* the number of mutants is a multiple of the threshold, when run_mutation
\* raises inside a worker and when the enumeration of the producer raises;
\* neither the producer, blocked on a full dispatch queue, nor a worker,
\* blocked on a full results queue, is left waiting forever
C33_ReturnsAndNobodyWaits ==
    /\ <>(coordinator.pc = "returned")
    /\ <>[]AllWorkersOver
    /\ <>(producer.pc = "done")

\* run_mutation_tests returns and every worker ends in every fair run; the
\* producer gets through in every fair run in which no worker raises
C33_ReturnsAndWorkersEnd ==
    /\ <>(coordinator.pc = "returned")
    /\ <>[]AllWorkersOver
    /\ <>(producer.pc = "done" \/ SomeWorkerRaised)

\* run_mutation_tests has returned after the exception of its worker; the
\* dispatch queue is full and the producer is in put() with nobody to take
\* an item
C33_ProducerWaitsForeverWitness ==
    /\ coordinator.pc = "returned"
    /\ SomeWorkerRaised
    /\ AllWorkersOver
    /\ Len(mutants_queue) = MaxQueue
    /\ producer.pc = "loop"

(***************************************************************************)
(* The end of do_run after the pipeline: run_mutation_tests has returned   *)
(* or raised, and the exit code is computed from the Progress of the run.  *)
(***************************************************************************)
\* how often status was registered for the mutant: by the producer, from
\* the cache, and by the coordinator, which has stored the status it
\* registered in the Mutant row
RegisteredAs(id, status) ==
    Cardinality({i \in DOMAIN tally.by_producer[id] : tally.by_producer[id][i] = status})
    + (IF \E row \in StoredMutant(dbLines, dbMutants, id) : row.status = status
       THEN tally.registered[id] ELSE 0)

RECURSIVE RegisteredOf(_, _)
RegisteredOf(ids, status) ==
    IF ids = {} THEN 0
    ELSE LET id == CHOOSE x \in ids : TRUE
         IN  RegisteredAs(id, status) + RegisteredOf(ids \ {id}, status)

\* the Progress object after the registrations of the run
ProgressOfRun ==
    LET ids == Range(producer.mutations)
        count(status) == RegisteredOf(ids, status)
    IN  [progress |-> count(OK_KILLED) + count(BAD_SURVIVED) + count(BAD_TIMEOUT)
                      + count(OK_SUSPICIOUS) + count(SKIPPED),
         skipped |-> count(SKIPPED), killed_mutants |-> count(OK_KILLED),
         surviving_mutants |-> count(BAD_SURVIVED),
         surviving_mutants_timeout |-> count(BAD_TIMEOUT),
         suspicious_mutants |-> count(OK_SUSPICIOUS)]

\* do_run, lines 342-353: run_mutation_tests has returned, the else branch
\* returns compute_exit_code(progress, ci=ci)
DoRunReturns ==
    /\ coordinator.pc = "returned"
    /\ exit.pc = "running"
    /\ \E ci \in BOOLEAN, p \in {ProgressOfRun} :
          /\ progress' = p
          /\ exit' = [pc |-> "exited", exception |-> "None", ci |-> ci,
                      code |-> compute_exit_code(p, "None", ci)]
    /\ UNCHANGED <<cacheVars, runVars, orchVars, lineVars, mutation, rerun, laterVars>>

NextSurface ==
    \/ NextRaise
    \/ DoRunReturns

SpecSurface == InitOrch /\ [][NextSurface]_vars

\* the mutants that were put on the dispatch queue and never tested
UnprocessedMutants ==
    {id \in Range(producer.mutations) : tally.dispatched[id] > tally.tested[id]}

\* C34: if run_mutation raises inside a worker, the failure is surfaced:
\* run_mutation_tests does not return normally while dispatched mutants
\* remain unprocessed, and the exit code of the run has the fatal-error
\* bit 1 set
C34_WorkerFailureSurfaced ==
    SomeWorkerRaised =>
        /\ coordinator.pc = "returned" => UnprocessedMutants = {}
        /\ exit.pc = "exited" => exit.code % 2 = 1

\* what the code does: after an exception in its worker the run returns
\* normally and the exit code never has the fatal-error bit
C34_WorkerFailureNeverSurfaced ==
    (SomeWorkerRaised /\ exit.pc = "exited") =>
        /\ exit.exception = "None"
        /\ exit.code % 2 = 0

\* the worker raised on its first mutant, a second one is still on the
\* dispatch queue, and the run ends with exit code 0
C34_SilentFailureWitness ==
    /\ SomeWorkerRaised
    /\ exit.pc = "exited"
    /\ exit.code = 0
    /\ progress.progress = 0
    /\ \E i \in DOMAIN mutants_queue : mutants_queue[i].command = "mutant"

(***************************************************************************)
(* The sync specification: the cache holds the Line rows of any earlier    *)
(* content of the file, or none, the file has any content now, and         *)
(* update_line_numbers is called once.                                     *)
(***************************************************************************)
\* the contents of a file: no line at all, or up to n lines
ContentsUpTo(n) == {<<>>} \cup FilesUpTo(n)

\* the Mutant rows after a run that killed every mutant
AllKilled(mutants, hash) ==
    [p \in DOMAIN mutants |->
        [mutants[p] EXCEPT !.status = OK_KILLED, !.tested_against_hash = hash]]

InitSync ==
    /\ file \in ContentsUpTo(MaxSyncLines)
    /\ testsHash = "h1"
    /\ \E cached \in ContentsUpTo(MaxSyncLines) :
          /\ dbLines = FirstIndexing(cached)
          /\ \E registered \in {register_mutants(dbLines, <<>>, MutationIdsOf(cached))} :
                dbMutants \in {registered, AllKilled(registered, testsHash)}
          /\ sourcefile \in {[hash |-> hash_of(cached)], [hash |-> NoFileHash]}
          /\ edit = [pc |-> "edited", at |-> 0, old_file |-> cached,
                     old_lines |-> dbLines, old_mutants |-> dbMutants,
                     lookups |-> 0, old_hash |-> sourcefile.hash]
    /\ lookup = NoLookup
    /\ updates = 0
    /\ RunIdle
    /\ OrchIdle
    /\ MutateIdle
    /\ ExitIdle

\* update_line_numbers(filename), whatever the stored hash
UpdateLineNumbersOfFile ==
    /\ edit.pc = "edited"
    /\ \E r \in {update_line_numbers(dbLines, dbMutants, sourcefile.hash, file)} :
          /\ dbLines' = r.lines
          /\ dbMutants' = r.mutants
          /\ sourcefile' = [sourcefile EXCEPT !.hash = r.hash]
    /\ edit' = [edit EXCEPT !.pc = "synced"]
    /\ UNCHANGED <<file, testsHash, lookup, updates>>
    /\ UNCHANGED notLineVars

NextSync == UpdateLineNumbersOfFile

SpecSync == InitSync /\ [][NextSync]_vars

\* exactly one Line row per line index of the file, carrying that line's text
LinesMatchFile ==
    /\ \A i \in 0..(Len(file) - 1) :
          Cardinality({p \in LivePks(dbLines) : dbLines[p].line_number = i}) = 1
    /\ \A p \in LivePks(dbLines) :
          /\ dbLines[p].line_number \in 0..(Len(file) - 1)
          /\ dbLines[p].line = file[dbLines[p].line_number + 1]

\* no Mutant row is left for a Line row that was deleted
MutantsOfDeletedLinesDeleted ==
    \A m \in DOMAIN dbMutants :
        dbMutants[m] # DeletedMutant => dbMutants[m].line \in LivePks(dbLines)

\* the rows are the rows before the call
NoRowChanged == dbLines = edit.old_lines /\ dbMutants = edit.old_mutants

\* C35: after update_line_numbers, the Line rows are the lines of the file,
\* one each, no Mutant is left of a deleted Line, and the stored hash is the
\* hash of the file; if the stored hash was the hash of the file already, no
\* row changed
C35_SyncedTablesAndHash ==
    edit.pc = "synced" =>
        /\ LinesMatchFile
        /\ MutantsOfDeletedLinesDeleted
        /\ sourcefile.hash = hash_of(file)
        /\ (edit.old_hash = hash_of(file) => NoRowChanged)

\* the same without the stored hash, which the first indexing leaves alone
C35_SyncedTables ==
    edit.pc = "synced" =>
        /\ (edit.old_hash # hash_of(file) => LinesMatchFile)
        /\ MutantsOfDeletedLinesDeleted
        /\ (edit.old_lines # <<>> => sourcefile.hash = hash_of(file))
        /\ (edit.old_hash = hash_of(file) => NoRowChanged)

\* a file indexed for the first time: its Line rows are there, its hash is not
C35_FirstIndexingWitness ==
    /\ edit.pc = "synced"
    /\ edit.old_lines = <<>>
    /\ file = <<"A">>
    /\ LinesMatchFile
    /\ sourcefile.hash = NoFileHash

(***************************************************************************)
(* The numbering of the candidates of a line, on the listings of the       *)
(* mutation sites specification.                                           *)
(***************************************************************************)
\* the positions of the recorded ids of a line, in the list
RecordedOn(line_number) ==
    {i \in DOMAIN mutation.mutation_ids :
        mutation.mutation_ids[i].line_number = line_number}

\* no two recorded ids are equal in line text, index and line number
PairwiseDistinctIds ==
    \A i, j \in DOMAIN mutation.mutation_ids :
        i # j => mutation.mutation_ids[i] # mutation.mutation_ids[j]

\* the ids of a line are recorded in the order of their indexes, and an index
\* is the number of a candidate of that line, counted from 0
NumberedInTraversalOrder ==
    \A i \in DOMAIN mutation.mutation_ids :
        LET id == mutation.mutation_ids[i]
        IN  /\ id.index \in 0..(AdvancesOn(id.line_number) - 1)
            /\ \A j \in RecordedOn(id.line_number) :
                   i < j => id.index < mutation.mutation_ids[j].index

\* every candidate is recorded when no operator kind is disabled: the ids of
\* a line are then 0, 1, 2, ... with no gap
EveryCandidateRecorded ==
    (\A type \in MutationTypes : ~TypeExcluded(type)) =>
        \A i \in DOMAIN mutation.mutation_ids :
            LET id == mutation.mutation_ids[i]
            IN  /\ Cardinality(RecordedOn(id.line_number)) = AdvancesOn(id.line_number)
                /\ id.index = Cardinality({j \in RecordedOn(id.line_number) : j < i})

\* C36: the index is 0 again on every new line and goes up by one for every
\* candidate mutation, so the ids list_mutations records are pairwise
\* distinct in (line text, index, line number) and the candidates of a line
\* are numbered 0, 1, 2, ... in the order of the traversal
C36_IdsDistinctAndNumberedPerLine ==
    mutation.pc = "listed" =>
        /\ PairwiseDistinctIds
        /\ NumberedInTraversalOrder
        /\ EveryCandidateRecorded

\* two candidates on the first line, and the first candidate of the second
\* line has index 0 again
C36_Witness ==
    /\ mutation.pc = "listed"
    /\ \E i, j \in DOMAIN mutation.mutation_ids :
          /\ mutation.mutation_ids[i].line_number = 0
          /\ mutation.mutation_ids[i].index = 1
          /\ mutation.mutation_ids[j].line_number = 1
          /\ mutation.mutation_ids[j].index = 0

(***************************************************************************)
(* The bound of the dispatch queue. MaxQueue stands for maxsize=100.       *)
(***************************************************************************)
\* the producer is in mutants_queue.put(): for an untested mutant, or for an
\* end item
ProducerAtPut ==
    /\ producer.pc = "loop"
    /\ producer.k <= Len(producer.mutations) =>
          ~_is_tested(producer.cached_mutation_statuses[producer.mutations[producer.k]])

\* the producer waits in put() for room in the queue
ProducerBlocked == ProducerAtPut /\ Len(mutants_queue) = MaxQueue

\* a worker takes the item at the head of the dispatch queue
WorkerTakes == mutants_queue' = Tail(mutants_queue)

\* C37: the dispatch queue never holds more than its bound; while it is full
\* the producer waits in put and adds nothing, the only change of the queue
\* being a worker that takes an item; and a producer in put goes on as soon
\* as the queue has room
C37_DispatchQueueBounded ==
    /\ [](Len(mutants_queue) <= MaxQueue)
    /\ [][ProducerBlocked =>
              /\ producer' = producer
              /\ mutants_queue' = mutants_queue \/ WorkerTakes]_vars
    /\ []((ProducerAtPut /\ Len(mutants_queue) < MaxQueue) =>
              ENABLED (QueueMutantsNext \/ QueueMutantsEnd))

\* the queue is full, the producer waits with the next mutant, and a worker
\* is about to take an item
C37_Witness ==
    /\ ProducerBlocked
    /\ producer.k <= Len(producer.mutations)
    /\ \E w \in DOMAIN workers : workers[w].pc = "get"

(***************************************************************************)
(* The Progress specification: the queue_mutants thread registers the      *)
(* cached statuses and the coordinator registers the statuses the workers  *)
(* send, on the one Progress object, with no lock. "self.x += 1" is a read *)
(* of the attribute and a write of the sum, and the other thread can run   *)
(* in between.                                                             *)
(***************************************************************************)
MaxRegisteredByThread == 2   \* statuses a thread registers

\* the statuses Progress.register accepts
RegisterStatuses == {BAD_SURVIVED, BAD_TIMEOUT, OK_KILLED, OK_SUSPICIOUS, SKIPPED}

\* lines 53-62: the counter of a status
CounterOf(status) ==
    CASE status = BAD_SURVIVED -> "surviving_mutants"
      [] status = BAD_TIMEOUT -> "surviving_mutants_timeout"
      [] status = OK_KILLED -> "killed_mutants"
      [] status = OK_SUSPICIOUS -> "suspicious_mutants"
      [] status = SKIPPED -> "skipped"

\* a thread with the statuses it is going to register, one call after the
\* other
RegisteringThread(statuses) ==
    [pc |-> "call", statuses |-> statuses, k |-> 1, loaded |-> 0]

StatusLists == UNION {[1..n -> RegisterStatuses] : n \in 1..MaxRegisteredByThread}

InitProgress ==
    /\ progress = NewProgress
    /\ producer \in {RegisteringThread(statuses) : statuses \in StatusLists}
    /\ coordinator \in {RegisteringThread(statuses) : statuses \in StatusLists}
    /\ mutants_queue = <<>>
    /\ results_queue = <<>>
    /\ workers = <<>>
    /\ tally = <<>>
    /\ file = <<>>
    /\ dbLines = <<>>
    /\ dbMutants = <<>>
    /\ testsHash = "h1"
    /\ lookup = NoLookup
    /\ updates = 0
    /\ RunIdle
    /\ LinesIdle
    /\ MutateIdle
    /\ exit = NoExit
    /\ rerun = NoRerun
    /\ LaterIdle

\* one step of Progress.register(status) in a thread, on the Progress object
\* p: the reads and the writes of lines 53-62 and of line 67
RegisterStep(thread, p) ==
    LET counter == CounterOf(thread.statuses[thread.k])
    IN  CASE thread.pc = "call" ->
                 [thread |-> [thread EXCEPT !.pc = "counter read", !.loaded = p[counter]],
                  progress |-> p]
          [] thread.pc = "counter read" ->
                 [thread |-> [thread EXCEPT !.pc = "counter written"],
                  progress |-> [p EXCEPT ![counter] = thread.loaded + 1]]
          [] thread.pc = "counter written" ->
                 [thread |-> [thread EXCEPT !.pc = "progress read", !.loaded = p.progress],
                  progress |-> p]
          [] thread.pc = "progress read" ->
                 [thread |-> [thread EXCEPT !.pc = "call", !.k = @ + 1],
                  progress |-> [p EXCEPT !.progress = thread.loaded + 1]]

Registering(thread) == thread.k <= Len(thread.statuses)

\* queue_mutants, line 44: progress.register(mutant.cached_status)
ProducerRegisters ==
    /\ Registering(producer)
    /\ \E r \in {RegisterStep(producer, progress)} :
          /\ producer' = r.thread
          /\ progress' = r.progress
    /\ UNCHANGED <<mutants_queue, results_queue, workers, coordinator, tally>>
    /\ UNCHANGED <<cacheVars, runVars, lineVars, mutation, exit, rerun, laterVars>>

\* run_mutation_tests, line 404: progress.register(status)
CoordinatorRegisters ==
    /\ Registering(coordinator)
    /\ \E r \in {RegisterStep(coordinator, progress)} :
          /\ coordinator' = r.thread
          /\ progress' = r.progress
    /\ UNCHANGED <<mutants_queue, results_queue, workers, producer, tally>>
    /\ UNCHANGED <<cacheVars, runVars, lineVars, mutation, exit, rerun, laterVars>>

NextProgress ==
    \/ ProducerRegisters
    \/ CoordinatorRegisters

SpecProgress == InitProgress /\ [][NextProgress]_vars

\* both threads have registered all their statuses
RunRegistered == ~Registering(producer) /\ ~Registering(coordinator)

EnumeratedMutants == Len(producer.statuses) + Len(coordinator.statuses)

SumOfCounters ==
    progress.killed_mutants + progress.surviving_mutants
    + progress.surviving_mutants_timeout + progress.suspicious_mutants
    + progress.skipped

\* C38: under every interleaving of the producer thread and the coordinator,
\* at the end of the run progress.progress is the number of enumerated
\* mutants and the sum of the five counters: no increment is lost
C38_NoIncrementLost ==
    RunRegistered =>
        /\ progress.progress = EnumeratedMutants
        /\ progress.progress = SumOfCounters

\* what does hold: no counter is ahead of the registrations, and each thread
\* alone counts right
C38_NeverAhead ==
    RunRegistered =>
        /\ progress.progress \in 1..EnumeratedMutants
        /\ SumOfCounters \in 1..EnumeratedMutants

\* one registration by each thread, and the total is 1
C38_LostIncrementWitness ==
    /\ RunRegistered
    /\ Len(producer.statuses) = 1
    /\ Len(coordinator.statuses) = 1
    /\ progress.progress = 1
    /\ SumOfCounters = 2

(***************************************************************************)
(* The verdict of a test run, from the exit code of the test command.      *)
(***************************************************************************)
\* Runner._hammett_tests_pass, line 104: bool(returncode == 0), for the
\* value main_cli returned
_hammett_tests_pass(returncode) == returncode = 0

\* the exit code the worker has read from the test subprocess
ReturncodeRead == CHOOSE c \in proc.returncode : TRUE

\* run_mutation has the verdict of a test run that was not timed out
VerdictReached == run.pc = "classify" /\ proc.returncode # {}

\* C39: the mutant is deemed detected exactly when the test command ends with
\* an exit code other than 0, undetected exactly when it ends with 0, and
\* the in-process hammett path gives the verdict of the subprocess path for
\* the same exit code
C39_DetectedIffNonZeroExit ==
    VerdictReached =>
        /\ run.survived <=> ReturncodeRead = 0
        /\ _hammett_tests_pass(ReturncodeRead) <=> tests_pass(ReturncodeRead)

\* the verdict of the subprocess path: detected exactly for exit code 1; the
\* two paths agree on the exit codes 0 and 1
C39_DetectedIffExitOne ==
    VerdictReached =>
        /\ run.survived <=> ReturncodeRead # 1
        /\ ReturncodeRead \in {0, 1} =>
              (_hammett_tests_pass(ReturncodeRead) <=> tests_pass(ReturncodeRead))

\* the test command ended with exit code 2 and the mutant counts as
\* undetected, where the hammett path says detected
C39_ExitTwoUndetectedWitness ==
    /\ VerdictReached
    /\ ReturncodeRead = 2
    /\ run.survived
    /\ ~_hammett_tests_pass(ReturncodeRead)

============================================================================
